---------------------------- MODULE Spec2Model ----------------------------
(***************************************************************************)
(* Lead Discovery Engine of arkhalidwork/leadgen.                          *)
(*                                                                         *)
(* One job of one of the four tools (Google Maps, LinkedIn, Instagram, web *)
(* crawler) is driven by its background runner thread (app.py run_*_job),  *)
(* which calls the tool's scrape(); request-handling threads serve stop    *)
(* requests (app.py *_stop) concurrently with it.                          *)
(*                                                                         *)
(* A search result is a URL, modelled as a number u: IdOf(u) is the        *)
(* identity the tool derives from it (username, business name, profile     *)
(* URL without its query string, domain); u = 0 is a URL that carries no   *)
(* identity.  URLs 1 and 2 name the same identity 1.                       *)
(***************************************************************************)
EXTENDS Integers, Sequences, FiniteSets, TLC

-----------------------------------------------------------------------------
(* Bounds of the model *)

MaxStops == 1
MaxQueries == 2
MaxId == 1
MaxResults == 2
MaxPages == 2

-----------------------------------------------------------------------------
(* Program constants *)

MAX_UNIQUE_USERNAMES == 500
GoogleQueryCap == 15
IgMaxEnrich == 60

Tools == {"gmaps", "linkedin", "instagram", "webcrawler"}
Terminal == {"completed", "failed", "stopped"}
Statuses == {"running"} \cup Terminal

Urls == 0 .. (MaxId + 1)
Ids == 1 .. MaxId
Handlers == 1 .. MaxStops

Min(a, b) == IF a < b THEN a ELSE b
Max(a, b) == IF a > b THEN a ELSE b

(* int((num / den) * scale) of the progress formulas *)
Pct(num, den, scale) == (num * scale) \div den

(* identity carried by a URL: URLs 1 and 2 are two addresses of identity 1 *)
(* (.../alice and .../alice?ref=x), every further URL u names identity u-1 *)
IdOf(u) == IF u <= 1 THEN u ELSE u - 1

RECURSIVE IdsOfSeq(_)
IdsOfSeq(s) == IF s = <<>> THEN {} ELSE {IdOf(Head(s))} \cup IdsOfSeq(Tail(s))

(* what one search call or one page can return: nothing, or one result URL *)
RawPages == {<<>>} \cup {<<u>> : u \in Urls}

-----------------------------------------------------------------------------
(* Post-processing: clean_leads, clean_linkedin_leads,                      *)
(* clean_instagram_leads, clean_web_leads.  Each keeps the first lead of    *)
(* every key and drops the leads that have none.  The key is the stripped   *)
(* business name, the stripped username, the lower-cased domain; for        *)
(* LinkedIn it is the URL exactly as stored.                                *)

LeadKey(t, u) == IF t = "linkedin" THEN u ELSE IdOf(u)

NoDupKeys(t, s) ==
    \A i, j \in 1 .. Len(s) : i # j => LeadKey(t, s[i]) # LeadKey(t, s[j])

KeepAll(t, s, seenKeys) == s

RECURSIVE CleanFrom(_, _, _)
CleanFrom(t, s, seenKeys) ==
    IF s = <<>> THEN <<>>
    ELSE IF LeadKey(t, Head(s)) = 0 \/ LeadKey(t, Head(s)) \in seenKeys
         THEN CleanFrom(t, Tail(s), seenKeys)
         ELSE <<Head(s)>>
                  \o CleanFrom(t, Tail(s), seenKeys \cup {LeadKey(t, Head(s))})

clean_leads(leads) == CleanFrom("gmaps", leads, {})
clean_linkedin_leads(leads) == CleanFrom("linkedin", leads, {})
clean_instagram_leads(leads) == CleanFrom("instagram", leads, {})
clean_web_leads(leads) == CleanFrom("webcrawler", leads, {})

(* the cleaning function each runner and each stop handler calls *)
Clean(t, rawLeads) ==
    CASE t = "gmaps" -> clean_leads(rawLeads)
      [] t = "linkedin" -> clean_linkedin_leads(rawLeads)
      [] t = "instagram" -> clean_instagram_leads(rawLeads)
      [] t = "webcrawler" -> clean_web_leads(rawLeads)

-----------------------------------------------------------------------------
VARIABLES
    tool,          \* which tool's job this is
    status,        \* job.status
    progress,      \* job.progress
    message,       \* job.message (its kind)
    leads,         \* job.leads
    error,         \* job.error
    jobScraper,    \* job.scraper is set (not None)
    shouldStop,    \* scraper._should_stop
    partialLeads,  \* scraper._partial_leads
    driver,        \* scraper.driver: "none" or "open"
    pc,            \* position of the runner thread
    exc,           \* exception propagating in the runner thread
    qi,            \* query index of the running search loop
    page,          \* page index inside one query
    numPages,      \* num_pages of the running _google_search call
    attempt,       \* CAPTCHA retry attempt
    results,       \* results of the query in progress
    allResults,    \* all_results / all_search_results
    seen,          \* the run's dedup set of identities
    found,         \* the leads list scrape() is building
    idx,           \* index of the parse / enrichment loop
    snippetLeads,  \* web crawler: snippet_leads
    tasks,         \* enrichment pool: the state of every submitted task
    doneCount,     \* enrichment pool: done_count of the collecting loop
    hpc,           \* position of each stop request
    hPartial,      \* partial leads a stop request has read
    stopObs        \* identities admitted when the scraper first saw the flag

jobVars == <<status, progress, message, leads, error, jobScraper>>
scraperVars == <<shouldStop, partialLeads, driver>>
poolVars == <<snippetLeads, tasks, doneCount>>
loopVars == <<qi, page, attempt, results, numPages, allResults, seen, found, idx, poolVars>>
handlerVars == <<hpc, hPartial>>
vars == <<tool, jobVars, scraperVars, pc, exc, loopVars, handlerVars, stopObs>>

-----------------------------------------------------------------------------
(* ScrapingJob.__init__ and friends: a fresh job, its runner not yet started *)

Init ==
    /\ tool \in Tools
    /\ status = "running"
    /\ progress = 0
    /\ message = "starting"
    /\ leads = <<>>
    /\ error = "none"
    /\ jobScraper = FALSE
    /\ shouldStop = FALSE
    /\ partialLeads = <<>>
    /\ driver = "none"
    /\ pc = "r_start"
    /\ exc = "none"
    /\ qi = 0
    /\ page = 0
    /\ attempt = 0
    /\ results = <<>>
    /\ allResults = <<>>
    /\ seen = {}
    /\ found = <<>>
    /\ idx = 0
    /\ numPages = 0
    /\ snippetLeads = <<>>
    /\ tasks = <<>>
    /\ doneCount = 0
    /\ hpc = [h \in Handlers |-> "idle"]
    /\ hPartial = [h \in Handlers |-> <<>>]
    /\ stopObs = [obs |-> FALSE, ids |-> {}, early |-> FALSE,
                  pool |-> FALSE]

(* an update that stores whatever percentage it is given *)
SetAlways(cur, pct) == pct

(* job.update_progress *)
UpdateProgress(cur, pct) == IF pct >= 0 THEN pct ELSE cur

Report(msg, pct) ==
    /\ message' = msg
    /\ progress' = UpdateProgress(progress, pct)

(* a read of _should_stop by the scraper: remember what was admitted when   *)
(* the flag is seen for the first time                                      *)
Observe(admitted) ==
    stopObs' = IF shouldStop /\ ~stopObs.obs
               THEN [stopObs EXCEPT !.obs = TRUE, !.ids = admitted]
               ELSE stopObs

(* which scrapers define get_partial_leads() *)
HasPartialLeads(t) == t \in {"gmaps", "instagram"}

(* the results one more search call can add within the model's bound *)
Room == MaxResults - (Len(allResults) + Len(results))
PagesThatFit == {p \in RawPages : Len(p) <= Room}


-----------------------------------------------------------------------------
(* Stop requests: app.py stop_scrape, linkedin_stop, instagram_stop,        *)
(* webcrawler_stop.  Each runs in a request-handling thread.                *)

(* the request arrives while the job is running and at least one query of  *)
(* the first search loop has not been issued yet                            *)
InTime ==
    /\ status = "running"
    /\ pc \in {"r_start", "scrape", "ig_ddg", "li_init", "li_google",
               "wc_init", "wc_query", "gm_init", "gm_query"}
    /\ qi < MaxQueries

(* the request arrives while the scraper collects from its worker pool and *)
(* some task has not finished                                               *)
TasksPending ==
    /\ jobScraper
    /\ pc \in {"wc_collect", "gm_collect"}
    /\ \E i \in DOMAIN tasks : tasks[i] \in {"queued", "running"}

(* if job.scraper: job.scraper.stop(); partial = get_partial_leads()        *)
(* LinkedInScraper and WebCrawlerScraper define no get_partial_leads: the   *)
(* handler dies there with AttributeError, after stop() has set the flag.   *)
HBegin(h) ==
    /\ hpc[h] = "idle"
    /\ \A g \in Handlers : g < h => hpc[g] # "idle"
    /\ IF jobScraper
       THEN /\ shouldStop' = TRUE
            /\ IF HasPartialLeads(tool)
               THEN /\ hPartial' = [hPartial EXCEPT ![h] = partialLeads]
                    /\ hpc' = [hpc EXCEPT ![h] = "h_write"]
               ELSE /\ hpc' = [hpc EXCEPT ![h] = "crashed"]
                    /\ UNCHANGED hPartial
       ELSE /\ hpc' = [hpc EXCEPT ![h] = "h_status"]
            /\ UNCHANGED <<shouldStop, hPartial>>
    /\ stopObs' = [stopObs EXCEPT !.early = @ \/ InTime,
                                  !.pool = @ \/ TasksPending]
    /\ UNCHANGED <<tool, jobVars, partialLeads, driver, pc, exc, loopVars>>

(* if partial: job.leads = clean(partial) *)
HWrite(h) ==
    /\ hpc[h] = "h_write"
    /\ leads' = IF hPartial[h] # <<>> THEN Clean(tool, hPartial[h]) ELSE leads
    /\ hPartial' = [hPartial EXCEPT ![h] = <<>>]
    /\ hpc' = [hpc EXCEPT ![h] = "h_status"]
    /\ UNCHANGED <<tool, status, progress, message, error, jobScraper,
                   scraperVars, pc, exc, loopVars, stopObs>>

(* job.status = "stopped"; job.message = "Stopped by user..." *)
HStatus(h) ==
    /\ hpc[h] = "h_status"
    /\ status' = "stopped"
    /\ message' = "stopped_by_user"
    /\ hpc' = [hpc EXCEPT ![h] = "done"]
    /\ UNCHANGED <<tool, progress, leads, error, jobScraper, scraperVars,
                   pc, exc, loopVars, hPartial, stopObs>>

-----------------------------------------------------------------------------
(* Background runners: app.py run_scraping_job, run_linkedin_job,           *)
(* run_instagram_job, run_webcrawler_job.                                   *)

(* scraper = Scraper(); job.scraper = scraper; set_progress_callback *)
RStart ==
    /\ pc = "r_start"
    /\ jobScraper' = TRUE
    /\ pc' = "scrape"
    /\ UNCHANGED <<tool, status, progress, message, leads, error, scraperVars,
                   exc, loopVars, handlerVars, stopObs>>

(* cleaned = clean(raw); job.leads = cleaned *)
RClean ==
    /\ pc = "r_clean"
    /\ leads' = Clean(tool, found)
    /\ pc' = "r_chk"
    /\ UNCHANGED <<tool, status, progress, message, error, jobScraper,
                   scraperVars, exc, loopVars, handlerVars, stopObs>>

(* if job.status == "stopped": *)
RCheckStopped ==
    /\ pc = "r_chk"
    /\ pc' = IF status = "stopped" THEN "r_partial" ELSE "r_complete"
    /\ UNCHANGED <<tool, jobVars, scraperVars, exc, loopVars, handlerVars, stopObs>>

(* the stopped branch: partial = scraper.get_partial_leads(); ...; return   *)
RPartial ==
    /\ pc = "r_partial"
    /\ IF HasPartialLeads(tool)
       THEN /\ leads' = IF partialLeads # <<>> THEN Clean(tool, partialLeads) ELSE leads
            /\ message' = "stopped"
            /\ pc' = "r_finally"
            /\ UNCHANGED exc
       ELSE /\ exc' = "AttributeError"
            /\ pc' = "r_except"
            /\ UNCHANGED <<leads, message>>
    /\ UNCHANGED <<tool, status, progress, error, jobScraper, scraperVars,
                   loopVars, handlerVars, stopObs>>

(* f"Done! Found {len(cleaned)} leads.": the message states the count *)
DoneMessageAny(n) == "done_found_some"
DoneMessage(n) == IF n = 0 THEN "done_found_0" ELSE "done_found_some"

(* job.status = "completed"; job.progress = 100; job.message = "Done!..." *)
RComplete ==
    /\ pc = "r_complete"
    /\ status' = "completed"
    /\ progress' = 100
    /\ message' = DoneMessage(Len(Clean(tool, found)))
    /\ pc' = "r_finally"
    /\ UNCHANGED <<tool, leads, error, jobScraper, scraperVars, exc, loopVars,
                   handlerVars, stopObs>>

(* except Exception as e: save partial leads, mark the job failed.  With a  *)
(* scraper that has no get_partial_leads the handler itself raises          *)
(* AttributeError, and neither status nor error is written.                 *)
RExcept ==
    /\ pc = "r_except"
    /\ IF jobScraper /\ ~HasPartialLeads(tool)
       THEN /\ exc' = "AttributeError"
            /\ UNCHANGED <<leads, status, error, message>>
       ELSE /\ leads' = IF jobScraper /\ partialLeads # <<>>
                        THEN Clean(tool, partialLeads) ELSE leads
            /\ IF status # "stopped"
               THEN /\ status' = "failed"
                    /\ error' = exc
                    /\ message' = "error"
               ELSE UNCHANGED <<status, error, message>>
            /\ exc' = "none"
    /\ pc' = "r_finally"
    /\ UNCHANGED <<tool, progress, jobScraper, scraperVars, loopVars,
                   handlerVars, stopObs>>

(* job.scraper.close(): no scraper defines close(), the AttributeError is   *)
(* swallowed and the driver is left as it is                                *)
ScraperClose(d) == d

(* finally: job.scraper.close(); job.scraper = None; the thread ends *)
RFinally ==
    /\ pc = "r_finally"
    /\ driver' = ScraperClose(driver)
    /\ jobScraper' = FALSE
    /\ pc' = "done"
    /\ UNCHANGED <<tool, status, progress, message, leads, error, shouldStop,
                   partialLeads, exc, loopVars, handlerVars, stopObs>>


-----------------------------------------------------------------------------
(* What every scraper shares *)

NumQ == MaxQueries
jobRest == <<status, leads, error, jobScraper>>
pageVars == <<page, attempt, results, numPages>>
Canon(id) == IF id <= 1 THEN id ELSE id + 1
KeepProgress == UNCHANGED <<progress, message>>

(* _register_results / all_results.extend(results) at the end of a query *)
Register(r, nextpc) ==
    /\ seen' = seen \cup (IdsOfSeq(r) \ {0})
    /\ allResults' = allResults \o r
    /\ qi' = qi + 1
    /\ pc' = nextpc

(* an exception that scrape() does not catch leaves scrape() *)
Escapes(kind) ==
    /\ exc' = kind
    /\ pc' = "r_except"

-----------------------------------------------------------------------------
(* InstagramScraper.scrape and _finalize_leads.  A call of a search         *)
(* function (_duckduckgo_search, _google_search, _bing_search) is one       *)
(* operation in flight; its page loop is the subject of SpecSearch.         *)

IgGoogleCount == Min(GoogleQueryCap, NumQ)

(* self._should_stop = False; self._partial_leads = []; "Phase 1/4", 2 *)
IgEnter ==
    /\ pc = "scrape" /\ tool = "instagram"
    /\ shouldStop' = FALSE
    /\ partialLeads' = <<>>
    /\ Report("progress", 2)
    /\ pc' = "ig_ddg"
    /\ UNCHANGED <<tool, jobRest, driver, exc, loopVars, handlerVars, stopObs>>

(* head of the DuckDuckGo loop, up to the call of _duckduckgo_search *)
IgDdgQuery ==
    /\ pc = "ig_ddg"
    /\ Observe(seen)
    /\ IF shouldStop \/ Cardinality(seen) >= MAX_UNIQUE_USERNAMES \/ qi >= NumQ
       THEN /\ Report("progress", 16)
            /\ qi' = 0
            /\ pc' = "ig_init"
       ELSE /\ Report("progress", 2 + Pct(qi, NumQ, 13))
            /\ pc' = "ig_ddg_wait"
            /\ UNCHANGED qi
    /\ UNCHANGED <<tool, jobRest, scraperVars, exc, pageVars,
                   allResults, seen, found, idx, poolVars, handlerVars>>

(* _duckduckgo_search returns (its errors give no results); register *)
IgDdgDone ==
    /\ pc = "ig_ddg_wait"
    /\ \E p \in PagesThatFit : Register(p, "ig_ddg")
    /\ UNCHANGED <<tool, jobVars, scraperVars, exc, pageVars, found, idx,
                   poolVars, handlerVars, stopObs>>

(* _init_driver(); on failure go on with the DuckDuckGo results only *)
IgInitDriver ==
    /\ pc = "ig_init"
    /\ \/ /\ driver' = "open"
          /\ Report("progress", 18)
          /\ pc' = "ig_google"
       \/ /\ Report("progress", 60)
          /\ pc' = "ig_parse"
          /\ UNCHANGED driver
    /\ UNCHANGED <<tool, jobRest, shouldStop, partialLeads, exc, loopVars,
                   handlerVars, stopObs>>

(* head of the Google loop, up to the call of _google_search *)
IgGoogleQuery ==
    /\ pc = "ig_google"
    /\ Observe(seen)
    /\ IF shouldStop \/ Cardinality(seen) >= MAX_UNIQUE_USERNAMES
          \/ qi >= IgGoogleCount
       THEN /\ Report("progress", 42)
            /\ qi' = 0
            /\ pc' = "ig_bing"
       ELSE /\ Report("progress", 18 + Pct(qi, IgGoogleCount, 22))
            /\ pc' = "ig_gwait"
            /\ UNCHANGED qi
    /\ UNCHANGED <<tool, jobRest, scraperVars, exc, pageVars,
                   allResults, seen, found, idx, poolVars, handlerVars>>

(* _google_search returns its results, or an error that is no             *)
(* WebDriverException leaves it and scrape()                               *)
IgGoogleDone ==
    /\ pc = "ig_gwait"
    /\ \/ /\ \E p \in PagesThatFit : Register(p, "ig_google")
          /\ UNCHANGED exc
       \/ /\ Escapes("scrape_error")
          /\ UNCHANGED <<qi, allResults, seen>>
    /\ UNCHANGED <<tool, jobVars, scraperVars, pageVars, found, idx,
                   poolVars, handlerVars, stopObs>>

(* head of the Bing loop, up to the call of _bing_search *)
IgBingQuery ==
    /\ pc = "ig_bing"
    /\ Observe(seen)
    /\ IF shouldStop \/ Cardinality(seen) >= MAX_UNIQUE_USERNAMES \/ qi >= NumQ
       THEN /\ qi' = 0
            /\ pc' = "ig_close"
            /\ KeepProgress
       ELSE /\ Report("progress", 42 + Pct(qi, NumQ, 18))
            /\ pc' = "ig_bwait"
            /\ UNCHANGED qi
    /\ UNCHANGED <<tool, jobRest, scraperVars, exc, pageVars,
                   allResults, seen, found, idx, poolVars, handlerVars>>

IgBingDone ==
    /\ pc = "ig_bwait"
    /\ \/ /\ \E p \in PagesThatFit : Register(p, "ig_bing")
          /\ UNCHANGED exc
       \/ /\ Escapes("scrape_error")
          /\ UNCHANGED <<qi, allResults, seen>>
    /\ UNCHANGED <<tool, jobVars, scraperVars, pageVars, found, idx,
                   poolVars, handlerVars, stopObs>>

(* self._close_driver(); "Search complete", 62; enter _finalize_leads *)
IgCloseDriver ==
    /\ pc = "ig_close"
    /\ driver' = "none"
    /\ Report("progress", 62)
    /\ pc' = "ig_parse"
    /\ UNCHANGED <<tool, jobRest, shouldStop, partialLeads, exc, loopVars,
                   handlerVars, stopObs>>

(* _finalize_leads: one round of the parse loop *)
IgParse ==
    /\ pc = "ig_parse"
    /\ Observe(seen)
    /\ IF shouldStop \/ idx >= Len(allResults)
       THEN /\ Report("progress", 80)
            /\ idx' = 0
            /\ pc' = "ig_enrich_chk"
            /\ UNCHANGED <<found, partialLeads>>
       ELSE /\ idx' = idx + 1
            /\ pc' = "ig_parse"
            /\ LET id == IdOf(allResults[idx + 1])
               IN IF id = 0 \/ id \in IdsOfSeq(found)
                  THEN /\ UNCHANGED <<found, partialLeads>>
                       /\ KeepProgress
                  ELSE /\ found' = Append(found, Canon(id))
                       /\ partialLeads' = Append(partialLeads, Canon(id))
                       /\ IF idx % 20 = 0
                          THEN Report("progress",
                                 Min(62 + Pct(idx, Max(Len(allResults), 1), 16), 78))
                          ELSE KeepProgress
    /\ UNCHANGED <<tool, jobRest, shouldStop, driver, exc, qi, pageVars,
                   allResults, seen, poolVars, handlerVars>>

(* if leads and not self._should_stop: *)
IgEnrichCheck ==
    /\ pc = "ig_enrich_chk"
    /\ Observe(seen)
    /\ pc' = IF found # <<>> /\ ~shouldStop THEN "ig_enrich" ELSE "ig_finish"
    /\ UNCHANGED <<tool, jobVars, scraperVars, exc, loopVars, handlerVars>>

(* _enrich_profiles: head of the loop, up to the profile request *)
IgEnrichNext ==
    /\ pc = "ig_enrich"
    /\ Observe(seen)
    /\ IF shouldStop \/ idx >= Min(Len(found), IgMaxEnrich)
       THEN /\ Report("progress", 95)
            /\ idx' = 0
            /\ pc' = "ig_finish"
       ELSE /\ IF idx % 8 = 0
               THEN Report("progress",
                           80 + Pct(idx, Min(Len(found), IgMaxEnrich), 15))
               ELSE KeepProgress
            /\ pc' = "ig_efetch"
            /\ UNCHANGED idx
    /\ UNCHANGED <<tool, jobRest, scraperVars, exc, qi, pageVars,
                   allResults, seen, found, poolVars, handlerVars>>

(* _enrich_single_profile returned (its failures are swallowed) *)
IgEnrichFetched ==
    /\ pc = "ig_efetch"
    /\ idx' = idx + 1
    /\ pc' = "ig_enrich"
    /\ UNCHANGED <<tool, jobVars, scraperVars, exc, qi, pageVars,
                   allResults, seen, found, poolVars, handlerVars, stopObs>>

(* "Done! Found ...", 100; return leads *)
IgFinish ==
    /\ pc = "ig_finish"
    /\ Report("progress", 100)
    /\ pc' = "r_clean"
    /\ UNCHANGED <<tool, jobRest, scraperVars, exc, loopVars, handlerVars, stopObs>>

IgNext ==
    \/ IgEnter \/ IgDdgQuery \/ IgDdgDone \/ IgInitDriver
    \/ IgGoogleQuery \/ IgGoogleDone \/ IgBingQuery \/ IgBingDone
    \/ IgCloseDriver \/ IgParse \/ IgEnrichCheck \/ IgEnrichNext
    \/ IgEnrichFetched \/ IgFinish

-----------------------------------------------------------------------------
(* LinkedInScraper.scrape *)

(* except Exception: report "Error: ...", -1; raise; finally: _close_driver *)
RaiseInTry(kind) ==
    /\ Report("error", -1)
    /\ driver' = "none"
    /\ Escapes(kind)

(* a return or the normal end of the try block: finally: _close_driver *)
ReturnFromTry(msg, pct) ==
    /\ Report(msg, pct)
    /\ driver' = "none"
    /\ pc' = "r_clean"

(* self._should_stop = False; leads = []; "Initializing browser...", 2 *)
LiEnter ==
    /\ pc = "scrape" /\ tool = "linkedin"
    /\ shouldStop' = FALSE
    /\ Report("progress", 2)
    /\ pc' = "li_init"
    /\ UNCHANGED <<tool, jobRest, partialLeads, driver, exc, loopVars,
                   handlerVars, stopObs>>

(* self._init_driver(), inside the try block *)
LiInitDriver ==
    /\ pc = "li_init"
    /\ \/ /\ driver' = "open"
          /\ pc' = "li_google"
          /\ KeepProgress
          /\ UNCHANGED exc
       \/ RaiseInTry("scrape_error")
    /\ UNCHANGED <<tool, jobRest, shouldStop, partialLeads, loopVars,
                   handlerVars, stopObs>>

(* head of the Google loop, up to the call of _google_search *)
LiGoogleQuery ==
    /\ pc = "li_google"
    /\ Observe(seen)
    /\ IF shouldStop \/ qi >= NumQ
       THEN /\ Report("progress", 40)
            /\ qi' = 0
            /\ pc' = "li_bing"
       ELSE /\ Report("progress", 5 + Pct(qi, NumQ, 30))
            /\ pc' = "li_gwait"
            /\ UNCHANGED qi
    /\ UNCHANGED <<tool, jobRest, scraperVars, exc, pageVars,
                   allResults, seen, found, idx, poolVars, handlerVars>>

(* _google_search returns; all_results.extend(results) *)
LiGoogleDone ==
    /\ pc = "li_gwait"
    /\ \/ /\ \E p \in PagesThatFit :
                /\ allResults' = allResults \o p
                /\ qi' = qi + 1
                /\ pc' = "li_google"
          /\ UNCHANGED <<exc, driver, progress, message>>
       \/ /\ RaiseInTry("scrape_error")
          /\ UNCHANGED <<qi, allResults>>
    /\ UNCHANGED <<tool, jobRest, shouldStop, partialLeads, pageVars, seen,
                   found, idx, poolVars, handlerVars, stopObs>>

(* head of the Bing loop, up to the call of _bing_search *)
LiBingQuery ==
    /\ pc = "li_bing"
    /\ Observe(seen)
    /\ IF shouldStop \/ qi >= NumQ
       THEN /\ qi' = 0
            /\ pc' = "li_results"
            /\ KeepProgress
       ELSE /\ Report("progress", 40 + Pct(qi, NumQ, 15))
            /\ pc' = "li_bwait"
            /\ UNCHANGED qi
    /\ UNCHANGED <<tool, jobRest, scraperVars, exc, pageVars,
                   allResults, seen, found, idx, poolVars, handlerVars>>

LiBingDone ==
    /\ pc = "li_bwait"
    /\ \/ /\ \E p \in PagesThatFit :
                /\ allResults' = allResults \o p
                /\ qi' = qi + 1
                /\ pc' = "li_bing"
          /\ UNCHANGED <<exc, driver, progress, message>>
       \/ /\ RaiseInTry("scrape_error")
          /\ UNCHANGED <<qi, allResults>>
    /\ UNCHANGED <<tool, jobRest, shouldStop, partialLeads, pageVars, seen,
                   found, idx, poolVars, handlerVars, stopObs>>

(* if not all_results: "No results found.", 100; return leads *)
LiResults ==
    /\ pc = "li_results"
    /\ IF allResults = <<>>
       THEN ReturnFromTry("no_results", 100)
       ELSE /\ Report("progress", 60)
            /\ pc' = "li_parse"
            /\ UNCHANGED driver
    /\ UNCHANGED <<tool, jobRest, shouldStop, partialLeads, exc, loopVars,
                   handlerVars, stopObs>>

(* one round of the parse loop; after it "Done!", 100 *)
LiParse ==
    /\ pc = "li_parse"
    /\ Observe(seen)
    /\ IF shouldStop \/ idx >= Len(allResults)
       THEN /\ ReturnFromTry("done", 100)
            /\ idx' = 0
            /\ UNCHANGED <<seen, found>>
       ELSE /\ idx' = idx + 1
            /\ pc' = "li_parse"
            /\ UNCHANGED driver
            /\ LET id == IdOf(allResults[idx + 1])
               IN IF id \in seen
                  THEN /\ UNCHANGED <<seen, found>>
                       /\ KeepProgress
                  ELSE /\ seen' = seen \cup ({id} \ {0})
                       /\ found' = IF id = 0 THEN found
                                   ELSE Append(found, Canon(id))
                       /\ IF idx % 5 = 0
                          THEN Report("progress",
                                      Min(60 + Pct(idx, Len(allResults), 35), 95))
                          ELSE KeepProgress
    /\ UNCHANGED <<tool, jobRest, shouldStop, partialLeads, exc, qi, pageVars,
                   allResults, poolVars, handlerVars>>

LiNext ==
    \/ LiEnter \/ LiInitDriver \/ LiGoogleQuery \/ LiGoogleDone
    \/ LiBingQuery \/ LiBingDone \/ LiResults \/ LiParse

-----------------------------------------------------------------------------
(* The enrichment pool: ThreadPoolExecutor + as_completed, as used by       *)
(* WebCrawlerScraper.scrape and GoogleMapsScraper.scrape.  A task is        *)
(* "queued" until a worker thread takes it, "running" while _scrape_website *)
(* works, then "lead" or "none" (what future.result() will give; an         *)
(* exception of the task gives no lead), "collected" once as_completed has  *)
(* yielded it, "cancelled" by shutdown(cancel_futures=True).                *)

WcMaxWorkers == 10
GmMaxWorkers == 15
TaskStates == {"queued", "running", "lead", "none", "collected", "cancelled"}

Submit(n) == [i \in 1 .. n |-> "queued"]
Running == {i \in DOMAIN tasks : tasks[i] = "running"}
Completed == {i \in DOMAIN tasks : tasks[i] \in {"lead", "none"}}
CancelQueued(ts) ==
    [i \in DOMAIN ts |-> IF ts[i] = "queued" THEN "cancelled" ELSE ts[i]]
MaxWorkers == IF tool = "gmaps" THEN GmMaxWorkers ELSE WcMaxWorkers

(* a worker thread takes a queued task and calls _scrape_website *)
TaskStart(i) ==
    /\ i \in DOMAIN tasks
    /\ tasks[i] = "queued"
    /\ Cardinality(Running) < MaxWorkers
    /\ tasks' = [tasks EXCEPT ![i] = "running"]
    /\ UNCHANGED <<tool, jobVars, scraperVars, pc, exc, qi, pageVars,
                   allResults, seen, found, idx, snippetLeads, doneCount,
                   handlerVars, stopObs>>

(* a task that reports its own end through the progress callback *)
TaskReports(i) ==
    /\ i \in DOMAIN tasks
    /\ tasks[i] = "running"
    /\ \E r \in {"lead", "none"} : tasks' = [tasks EXCEPT ![i] = r]
    /\ Report("progress", 90)
    /\ UNCHANGED <<tool, jobRest, scraperVars, pc, exc, qi, pageVars,
                   allResults, seen, found, idx, snippetLeads, doneCount,
                   handlerVars, stopObs>>

(* a task whose failure leaves the pool and scrape() *)
TaskCrash(i) ==
    /\ i \in DOMAIN tasks
    /\ tasks[i] = "running"
    /\ tasks' = [tasks EXCEPT ![i] = "none"]
    /\ Escapes("scrape_error")
    /\ UNCHANGED <<tool, jobVars, scraperVars, qi, pageVars,
                   allResults, seen, found, idx, snippetLeads, doneCount,
                   handlerVars, stopObs>>

(* _scrape_website returns a lead, or returns None / raises *)
TaskFinish(i) ==
    /\ i \in DOMAIN tasks
    /\ tasks[i] = "running"
    /\ \E r \in {"lead", "none"} : tasks' = [tasks EXCEPT ![i] = r]
    /\ UNCHANGED <<tool, jobVars, scraperVars, pc, exc, qi, pageVars,
                   allResults, seen, found, idx, snippetLeads, doneCount,
                   handlerVars, stopObs>>

PoolNext == \E i \in 1 .. MaxResults : TaskStart(i) \/ TaskFinish(i)

-----------------------------------------------------------------------------
(* WebCrawlerScraper.scrape.  A result is a URL with a domain; a lead is    *)
(* the URL of its website.                                                  *)

WcPages == {p \in PagesThatFit : \A i \in DOMAIN p : p[i] # 0}

(* seen_domains / unique_urls: the first URL of every domain *)
RECURSIVE FirstOfDomain(_, _)
FirstOfDomain(rs, seen_domains) ==
    IF rs = <<>> THEN <<>>
    ELSE IF IdOf(Head(rs)) \in seen_domains
         THEN FirstOfDomain(Tail(rs), seen_domains)
         ELSE <<Head(rs)>>
                  \o FirstOfDomain(Tail(rs), seen_domains \cup {IdOf(Head(rs))})
UniqueUrls(rs) == FirstOfDomain(rs, {})

(* Phase 3: keep the first lead of every key (lead.website) *)
RECURSIVE FirstOfKey(_, _)
FirstOfKey(s, keys) ==
    IF s = <<>> THEN <<>>
    ELSE IF Head(s) \in keys THEN FirstOfKey(Tail(s), keys)
    ELSE <<Head(s)>> \o FirstOfKey(Tail(s), keys \cup {Head(s)})

MergeLeads(deep, snippets) == FirstOfKey(deep \o snippets, {})

(* self._should_stop = False; leads = []; "Initializing browser...", 2 *)
WcEnter ==
    /\ pc = "scrape" /\ tool = "webcrawler"
    /\ shouldStop' = FALSE
    /\ Report("progress", 2)
    /\ pc' = "wc_init"
    /\ UNCHANGED <<tool, jobRest, partialLeads, driver, exc, loopVars,
                   handlerVars, stopObs>>

(* self._init_driver(), inside the try block *)
WcInitDriver ==
    /\ pc = "wc_init"
    /\ \/ /\ driver' = "open"
          /\ pc' = "wc_query"
          /\ KeepProgress
          /\ UNCHANGED exc
       \/ RaiseInTry("scrape_error")
    /\ UNCHANGED <<tool, jobRest, shouldStop, partialLeads, loopVars,
                   handlerVars, stopObs>>

(* head of the search loop, up to the call of the search function; after    *)
(* the loop: _close_driver(), seen_domains / unique_urls, "Found ...", 45   *)
WcQuery ==
    /\ pc = "wc_query"
    /\ Observe(IdsOfSeq(allResults))
    /\ IF shouldStop \/ qi >= NumQ
       THEN /\ driver' = "none"
            /\ seen' = IdsOfSeq(allResults)
            /\ Report("progress", 45)
            /\ pc' = "wc_pool"
       ELSE /\ Report("progress", 3 + Pct(qi, NumQ, 40))
            /\ pc' = "wc_qwait"
            /\ UNCHANGED <<driver, seen>>
    /\ UNCHANGED <<tool, jobRest, shouldStop, partialLeads, exc, qi, pageVars,
                   allResults, found, idx, poolVars, handlerVars>>

(* the search function returns; all_search_results.extend(results); a       *)
(* snippet lead for every result whose snippet holds an email or a phone    *)
WcQueryDone ==
    /\ pc = "wc_qwait"
    /\ \/ /\ \E p \in WcPages, hasContact \in BOOLEAN :
                /\ allResults' = allResults \o p
                /\ snippetLeads' = IF hasContact THEN snippetLeads \o p
                                   ELSE snippetLeads
                /\ qi' = qi + 1
                /\ pc' = "wc_query"
          /\ UNCHANGED <<exc, driver, progress, message>>
       \/ /\ RaiseInTry("scrape_error")
          /\ UNCHANGED <<qi, allResults, snippetLeads>>
    /\ UNCHANGED <<tool, jobRest, shouldStop, partialLeads, pageVars, seen,
                   found, idx, tasks, doneCount, handlerVars, stopObs>>

(* if unique_urls and not self._should_stop: submit every unique URL *)
WcPool ==
    /\ pc = "wc_pool"
    /\ Observe(seen)
    /\ IF UniqueUrls(allResults) # <<>> /\ ~shouldStop
       THEN /\ tasks' = Submit(Len(UniqueUrls(allResults)))
            /\ doneCount' = 0
            /\ pc' = "wc_collect"
       ELSE /\ pc' = "wc_merge"
            /\ UNCHANGED <<tasks, doneCount>>
    /\ UNCHANGED <<tool, jobVars, scraperVars, exc, qi, pageVars, allResults,
                   seen, found, idx, snippetLeads, handlerVars>>

(* one round of "for future in as_completed(futures)" *)
WcCollect ==
    /\ pc = "wc_collect"
    /\ \E i \in Completed :
          /\ doneCount' = doneCount + 1
          /\ Observe(seen)
          /\ IF shouldStop
             THEN /\ tasks' = CancelQueued([tasks EXCEPT ![i] = "collected"])
                  /\ pc' = "wc_join"
                  /\ KeepProgress
                  /\ UNCHANGED found
             ELSE /\ tasks' = [tasks EXCEPT ![i] = "collected"]
                  /\ found' = IF tasks[i] = "lead"
                              THEN Append(found, UniqueUrls(allResults)[i])
                              ELSE found
                  /\ IF doneCount' % 5 = 0 \/ doneCount' = Len(tasks)
                     THEN Report("progress",
                                 Min(45 + Pct(doneCount', Len(tasks), 50), 95))
                     ELSE KeepProgress
                  /\ pc' = IF doneCount' = Len(tasks) THEN "wc_join"
                           ELSE "wc_collect"
    /\ UNCHANGED <<tool, jobRest, scraperVars, exc, qi, pageVars, allResults,
                   seen, idx, snippetLeads, handlerVars>>

(* leaving the with block: shutdown(wait=True) waits for the running tasks *)
WcJoin ==
    /\ pc = "wc_join"
    /\ Running = {}
    /\ pc' = "wc_merge"
    /\ UNCHANGED <<tool, jobVars, scraperVars, exc, loopVars, handlerVars,
                   stopObs>>

(* Phase 3 merge; leads = all_leads; "Done! ...", 100; finally *)
WcMerge ==
    /\ pc = "wc_merge"
    /\ found' = MergeLeads(found, snippetLeads)
    /\ ReturnFromTry("done", 100)
    /\ UNCHANGED <<tool, jobRest, shouldStop, partialLeads, exc, qi, pageVars,
                   allResults, seen, idx, poolVars, handlerVars, stopObs>>

WcNext ==
    \/ WcEnter \/ WcInitDriver \/ WcQuery \/ WcQueryDone
    \/ WcPool \/ WcCollect \/ WcJoin \/ WcMerge

-----------------------------------------------------------------------------
(* GoogleMapsScraper.scrape.  A listing URL is its name slug; the lead      *)
(* extracted from it carries the business name of that listing.             *)

MaxScrollAttempts == 50
StallLimit == 3

BasePct == Pct(qi, NumQ, 80)
Slugs == seen
GmRoom == MaxResults - Cardinality(Slugs)
RECURSIVE NewUrls(_, _)
NewUrls(listing, seenNames) ==
    IF listing = <<>> THEN <<>>
    ELSE IF Head(listing) \in seenNames THEN NewUrls(Tail(listing), seenNames)
    ELSE <<Head(listing)>>
             \o NewUrls(Tail(listing), seenNames \cup {Head(listing)})
Listings == {p \in RawPages : Len(NewUrls(p, Slugs)) <= GmRoom}
AdmittedNames == {IdOf(u) : u \in Slugs} \ {0}

(* the except block of scrape(), entered after all_leads was assigned *)
GmRaise(kind) ==
    /\ partialLeads' = IF found # <<>> THEN found ELSE partialLeads
    /\ Report("error", -1)
    /\ driver' = "none"
    /\ Escapes(kind)

(* leads = []; _should_stop = False; _partial_leads = []; seen_names =      *)
(* set(); "Initializing browser...", 2                                      *)
GmEnter ==
    /\ pc = "scrape" /\ tool = "gmaps"
    /\ shouldStop' = FALSE
    /\ partialLeads' = <<>>
    /\ Report("progress", 2)
    /\ pc' = "gm_init"
    /\ UNCHANGED <<tool, jobRest, driver, exc, loopVars, handlerVars, stopObs>>

(* self._init_driver().  When it raises, all_leads is not yet bound: the    *)
(* except block dies at "if all_leads:" with UnboundLocalError before it    *)
(* reports; finally closes the driver.                                      *)
GmInitDriver ==
    /\ pc = "gm_init"
    /\ \/ /\ driver' = "open"
          /\ pc' = "gm_query"
          /\ UNCHANGED exc
       \/ /\ driver' = "none"
          /\ Escapes("UnboundLocalError")
    /\ KeepProgress
    /\ UNCHANGED <<tool, jobRest, shouldStop, partialLeads, loopVars,
                   handlerVars, stopObs>>

(* head of the area loop: "[Area ...] Searching", max(3, base_pct) *)
GmQuery ==
    /\ pc = "gm_query"
    /\ Observe(AdmittedNames)
    /\ IF shouldStop \/ qi >= NumQ
       THEN /\ pc' = "gm_pool"
            /\ KeepProgress
       ELSE /\ Report("progress", Max(3, BasePct))
            /\ pc' = "gm_search"
    /\ UNCHANGED <<tool, jobRest, scraperVars, exc, loopVars, handlerVars>>

(* _search_maps: "Searching Google Maps for", 5; driver.get(search_url) *)
GmSearch ==
    /\ pc = "gm_search"
    /\ Report("progress", 5)
    /\ pc' = "gm_swait"
    /\ UNCHANGED <<tool, jobRest, scraperVars, exc, loopVars, handlerVars,
                   stopObs>>

(* driver.get returns, or raises out of scrape()'s try block *)
GmSearchDone ==
    /\ pc = "gm_swait"
    /\ \/ /\ pc' = "gm_scroll_start"
          /\ KeepProgress
          /\ UNCHANGED <<exc, driver, partialLeads>>
       \/ GmRaise("scrape_error")
    /\ UNCHANGED <<tool, jobRest, shouldStop, loopVars, handlerVars, stopObs>>

(* _scroll_results: "Scrolling to load all results...", 15; find the feed *)
GmScrollStart ==
    /\ pc = "gm_scroll_start"
    /\ Report("progress", 15)
    /\ attempt' = 0
    /\ \E panel \in BOOLEAN :
          pc' = IF panel THEN "gm_scroll" ELSE "gm_after_scroll"
    /\ UNCHANGED <<tool, jobRest, scraperVars, exc, qi, page, results,
                   numPages, allResults, seen, found, idx, poolVars,
                   handlerVars, stopObs>>

(* one round of "while scroll_attempts < max_scroll_attempts" *)
GmScroll ==
    /\ pc = "gm_scroll"
    /\ Observe(AdmittedNames)
    /\ IF attempt >= MaxScrollAttempts
       THEN /\ pc' = "gm_after_scroll"
            /\ KeepProgress
            /\ UNCHANGED attempt
       ELSE IF shouldStop
       THEN /\ Report("stopped", -1)
            /\ pc' = "gm_after_scroll"
            /\ UNCHANGED attempt
       ELSE \/ /\ Report("progress", 30)           \* end of list marker
               /\ pc' = "gm_after_scroll"
               /\ UNCHANGED attempt
            \/ /\ attempt' = attempt + 1           \* new_height == last_height
               /\ IF attempt' >= StallLimit
                  THEN /\ Report("progress", 30)
                       /\ pc' = "gm_after_scroll"
                  ELSE /\ Report("progress", Min(30, 15 + attempt'))
                       /\ pc' = "gm_scroll"
            \/ /\ attempt' = 0                     \* the list grew
               /\ Report("progress", Min(30, 15 + attempt'))
               /\ pc' = "gm_scroll"
    /\ UNCHANGED <<tool, jobRest, scraperVars, exc, qi, page, results,
                   numPages, allResults, seen, found, idx, poolVars,
                   handlerVars>>

(* if self._should_stop: break; _get_listing_links: "Collecting", 35 *)
GmAfterScroll ==
    /\ pc = "gm_after_scroll"
    /\ Observe(AdmittedNames)
    /\ IF shouldStop
       THEN /\ pc' = "gm_pool"
            /\ KeepProgress
       ELSE /\ Report("progress", 35)
            /\ pc' = "gm_links"
    /\ UNCHANGED <<tool, jobRest, scraperVars, exc, loopVars, handlerVars>>

(* _get_listing_links returns: "Found n business listings.", 40 *)
GmLinks ==
    /\ pc = "gm_links"
    /\ \E listing \in Listings : results' = listing
    /\ Report("progress", 40)
    /\ pc' = "gm_filter"
    /\ UNCHANGED <<tool, jobRest, scraperVars, exc, qi, page, attempt,
                   numPages, allResults, seen, found, idx, poolVars,
                   handlerVars, stopObs>>

(* no listings: base_pct + 2, continue; no new listings: continue; else     *)
(* seen_names grows and "Found n new businesses", base_pct + 3              *)
GmFilter ==
    /\ pc = "gm_filter"
    /\ LET new_urls == NewUrls(results, Slugs)
       IN IF results = <<>>
          THEN /\ Report("progress", BasePct + 2)
               /\ qi' = qi + 1
               /\ pc' = "gm_query"
               /\ UNCHANGED <<results, seen>>
          ELSE IF new_urls = <<>>
          THEN /\ KeepProgress
               /\ qi' = qi + 1
               /\ results' = <<>>
               /\ pc' = "gm_query"
               /\ UNCHANGED seen
          ELSE /\ seen' = seen \cup {new_urls[i] : i \in DOMAIN new_urls}
               /\ results' = new_urls
               /\ Report("progress", BasePct + 3)
               /\ pc' = "gm_detail"
               /\ UNCHANGED qi
    /\ idx' = 0
    /\ UNCHANGED <<tool, jobRest, scraperVars, exc, page, attempt, numPages,
                   allResults, found, poolVars, handlerVars, stopObs>>

(* head of the detail loop, up to the call of _extract_business_detail *)
GmDetail ==
    /\ pc = "gm_detail"
    /\ Observe(AdmittedNames)
    /\ IF shouldStop \/ idx >= Len(results)
       THEN /\ qi' = qi + 1
            /\ results' = <<>>
            /\ pc' = "gm_query"
            /\ KeepProgress
       ELSE /\ IF idx % 5 = 0
               THEN Report("progress",
                           Min(BasePct + 3
                               + Pct(idx * 80, Len(results) * NumQ, 1), 82))
               ELSE KeepProgress
            /\ pc' = "gm_dwait"
            /\ UNCHANGED <<qi, results>>
    /\ UNCHANGED <<tool, jobRest, scraperVars, exc, page, attempt, numPages,
                   allResults, seen, found, idx, poolVars, handlerVars>>

(* _extract_business_detail returns; a lead with a usable name joins        *)
(* all_leads and _partial_leads is refreshed                                *)
GmDetailDone ==
    /\ pc = "gm_dwait"
    /\ \/ /\ \E named \in BOOLEAN :
                found' = IF named /\ results[idx + 1] # 0
                         THEN Append(found, results[idx + 1])
                         ELSE found
          /\ partialLeads' = IF found' # found THEN found' ELSE partialLeads
          /\ idx' = idx + 1
          /\ pc' = "gm_detail"
          /\ KeepProgress
          /\ UNCHANGED <<exc, driver>>
       \/ /\ GmRaise("scrape_error")
          /\ UNCHANGED <<found, idx>>
    /\ UNCHANGED <<tool, jobRest, shouldStop, qi, pageVars, allResults, seen,
                   poolVars, handlerVars, stopObs>>

(* leads_with_websites; if any and not stopped: "Scanning n websites", 82 *)
GmPool ==
    /\ pc = "gm_pool"
    /\ Observe(AdmittedNames)
    /\ \E ws_total \in 0 .. Len(found) :
          IF ws_total > 0 /\ ~shouldStop
          THEN /\ Report("progress", 82)
               /\ tasks' = Submit(ws_total)
               /\ doneCount' = 0
               /\ pc' = "gm_collect"
          ELSE /\ pc' = "gm_finish"
               /\ KeepProgress
               /\ UNCHANGED <<tasks, doneCount>>
    /\ UNCHANGED <<tool, jobRest, scraperVars, exc, qi, pageVars, allResults,
                   seen, found, idx, snippetLeads, handlerVars>>

(* one round of "for future in as_completed(futures)" *)
GmCollect ==
    /\ pc = "gm_collect"
    /\ \E i \in Completed :
          /\ doneCount' = doneCount + 1
          /\ Observe(AdmittedNames)
          /\ IF shouldStop
             THEN /\ tasks' = CancelQueued([tasks EXCEPT ![i] = "collected"])
                  /\ pc' = "gm_join"
                  /\ KeepProgress
                  /\ UNCHANGED partialLeads
             ELSE /\ tasks' = [tasks EXCEPT ![i] = "collected"]
                  /\ partialLeads' = found
                  /\ IF doneCount' % 10 = 0 \/ doneCount' = Len(tasks)
                     THEN Report("progress",
                                 Min(82 + Pct(doneCount', Len(tasks), 16), 98))
                     ELSE KeepProgress
                  /\ pc' = IF doneCount' = Len(tasks) THEN "gm_join"
                           ELSE "gm_collect"
    /\ UNCHANGED <<tool, jobRest, shouldStop, driver, exc, qi, pageVars,
                   allResults, seen, found, idx, snippetLeads, handlerVars>>

(* leaving the with block: shutdown(wait=True) waits for the running tasks *)
GmJoin ==
    /\ pc = "gm_join"
    /\ Running = {}
    /\ pc' = "gm_finish"
    /\ UNCHANGED <<tool, jobVars, scraperVars, exc, loopVars, handlerVars,
                   stopObs>>

(* leads = all_leads; _partial_leads = leads; "Scraping complete!", 100;    *)
(* finally: _close_driver()                                                 *)
GmFinish ==
    /\ pc = "gm_finish"
    /\ partialLeads' = found
    /\ ReturnFromTry("done", 100)
    /\ UNCHANGED <<tool, jobRest, shouldStop, exc, loopVars, handlerVars,
                   stopObs>>

GmNext ==
    \/ GmEnter \/ GmInitDriver \/ GmQuery \/ GmSearch \/ GmSearchDone
    \/ GmScrollStart \/ GmScroll \/ GmAfterScroll \/ GmLinks \/ GmFilter
    \/ GmDetail \/ GmDetailDone \/ GmPool \/ GmCollect \/ GmJoin \/ GmFinish

-----------------------------------------------------------------------------
(* One call of _google_search (InstagramScraper, LinkedInScraper,           *)
(* WebCrawlerScraper) with stop() arriving from another thread.  The stop   *)
(* check at the head of the page loop and the driver.get that follows it    *)
(* are taken as one step.                                                   *)

SearchTools == {"instagram", "linkedin", "webcrawler"}

(* Instagram: "for attempt in range(3)"; the others reload once *)
IgCaptchaRetries == 3
CaptchaRetries(t) == IF t = "instagram" THEN IgCaptchaRetries ELSE 1

(* a wait that does not grow with the attempt *)
FlatWait(k, jitter) == 15 + jitter

(* InstagramScraper: wait = (15 + attempt * 15) + random.uniform(5, 15),    *)
(* in whole seconds                                                         *)
CaptchaWait(k, jitter) == (15 + k * 15) + jitter

searchFrame == <<tool, jobVars, partialLeads, driver, exc, qi, numPages,
                 allResults, seen, found, idx, poolVars, handlerVars, stopObs>>

SearchInit ==
    /\ tool \in SearchTools
    /\ status = "running"
    /\ progress = 0
    /\ message = "progress"
    /\ leads = <<>>
    /\ error = "none"
    /\ jobScraper = TRUE
    /\ shouldStop = FALSE
    /\ partialLeads = <<>>
    /\ driver = "open"
    /\ pc = "gs_page"
    /\ exc = "none"
    /\ qi = 0
    /\ page = 0
    /\ attempt = -1            \* not bound before the first back-off
    /\ results = <<>>
    /\ numPages \in 1 .. MaxPages
    /\ allResults = <<>>
    /\ seen = {}
    /\ found = <<>>
    /\ idx = 0
    /\ snippetLeads = <<>>
    /\ tasks = <<>>
    /\ doneCount = 0
    /\ hpc = [h \in Handlers |-> "idle"]
    /\ hPartial = [h \in Handlers |-> <<>>]
    /\ stopObs = [obs |-> FALSE, ids |-> {}, early |-> FALSE,
                  pool |-> FALSE]

(* scraper.stop(): self._should_stop = True *)
GsStop ==
    /\ ~shouldStop
    /\ shouldStop' = TRUE
    /\ UNCHANGED <<pc, page, attempt, results, searchFrame>>

(* for page in range(num_pages): if self._should_stop: break;               *)
(* self.driver.get(url)                                                     *)
GsPage ==
    /\ pc = "gs_page"
    /\ pc' = IF shouldStop \/ page >= numPages THEN "gs_return" ELSE "gs_load"
    /\ UNCHANGED <<shouldStop, page, attempt, results, searchFrame>>

(* what the iteration would do if a page that came back from the back-off   *)
(* were dropped together with the rest of the query                         *)
AbandonQuery ==
    /\ pc' = "gs_return"
    /\ UNCHANGED <<page, results>>

(* the rest of an iteration once the page is free of a CAPTCHA: parse,      *)
(* results.extend(page_results), break when there is no "pnnext"            *)
ParsePage ==
    \E p \in PagesThatFit, hasNext \in BOOLEAN :
        /\ results' = results \o p
        /\ page' = page + 1
        /\ pc' = IF hasNext THEN "gs_page" ELSE "gs_return"

(* except WebDriverException: continue *)
PageError ==
    /\ page' = page + 1
    /\ pc' = "gs_page"
    /\ UNCHANGED results

(* the page has loaded: _check_captcha() *)
GsLoaded ==
    /\ pc = "gs_load"
    /\ \/ ParsePage /\ UNCHANGED attempt
       \/ PageError /\ UNCHANGED attempt
       \/ /\ attempt' = 0
          /\ pc' = "gs_backoff"
          /\ UNCHANGED <<page, results>>
    /\ UNCHANGED <<shouldStop, searchFrame>>

(* the back-off sleep ends: self.driver.get(url) again, _should_stop is     *)
(* not read                                                                 *)
GsBackoff ==
    /\ pc = "gs_backoff"
    /\ pc' = "gs_reload"
    /\ UNCHANGED <<shouldStop, page, attempt, results, searchFrame>>

(* the reloaded page: parse it when the CAPTCHA is gone, else try again or  *)
(* give up the query                                                        *)
GsReloaded ==
    /\ pc = "gs_reload"
    /\ \/ ParsePage /\ UNCHANGED attempt
       \/ PageError /\ UNCHANGED attempt
       \/ /\ attempt' = attempt + 1
          /\ pc' = IF attempt' < CaptchaRetries(tool) THEN "gs_backoff"
                   ELSE "gs_return"
          /\ UNCHANGED <<page, results>>
    /\ UNCHANGED <<shouldStop, searchFrame>>

(* a scrape loop that goes to its next query without the results of the     *)
(* one that just returned                                                   *)
DropResults ==
    /\ pc = "gs_return"
    /\ qi' = qi + 1
    /\ pc' = IF shouldStop \/ qi + 1 >= NumQ THEN "gs_end" ELSE "gs_page"
    /\ page' = 0
    /\ results' = <<>>
    /\ UNCHANGED <<tool, jobVars, scraperVars, exc, attempt, numPages,
                   allResults, seen, found, idx, poolVars, handlerVars,
                   stopObs>>

(* _google_search returns: results = self._google_search(query, ...);       *)
(* _register_results(results); then the head of the query loop, which       *)
(* breaks on _should_stop and ends after the last query                     *)
GsNextQuery ==
    /\ pc = "gs_return"
    /\ Register(results,
                IF shouldStop \/ qi + 1 >= NumQ THEN "gs_end" ELSE "gs_page")
    /\ page' = 0
    /\ results' = <<>>
    /\ UNCHANGED <<tool, jobVars, scraperVars, exc, attempt, numPages,
                   found, idx, poolVars, handlerVars, stopObs>>

SearchNext ==
    GsStop \/ GsPage \/ GsLoaded \/ GsBackoff \/ GsReloaded \/ GsNextQuery

SpecSearch == SearchInit /\ [][SearchNext]_vars

-----------------------------------------------------------------------------
(* Collapsing raw result URLs into leads: the parse loops of                *)
(* InstagramScraper._finalize_leads and LinkedInScraper.scrape followed by  *)
(* clean_instagram_leads / clean_linkedin_leads.  Here a URL is the number  *)
(* 4 * handle + variant: variant 0 is .../alice, 1 is .../alice?ref=x,      *)
(* 2 is .../alice/ (a trailing path), 3 is .../alice/?ref=x.                *)

MaxHandle == 2
ProfileUrls == 4 .. (4 * MaxHandle + 3)

(* the first group of the pattern instagram\.com/([\w][\w.\-]{0,29}) and of *)
(* linkedin\.com/in/([\w\-]+): it ends before "/" and before "?"            *)
HandleOf(u) == u \div 4

(* url.split("?")[0] *)
StripQuery(u) == IF u % 2 = 1 THEN u - 1 ELSE u

(* what each parse loop and each cleaning function compares: the username   *)
(* (Instagram), url_clean / profile_url (LinkedIn)                          *)
DedupKey(t, u) == IF t = "instagram" THEN HandleOf(u) ELSE StripQuery(u)

(* lead.profile_url: rebuilt from the username, or the URL without its      *)
(* query string                                                             *)
ProfileUrl(t, u) == IF t = "instagram" THEN 4 * HandleOf(u) ELSE StripQuery(u)

DedupInit ==
    /\ tool \in {"instagram", "linkedin"}
    /\ allResults \in {<<>>} \cup {<<u>> : u \in ProfileUrls}
                         \cup {<<u, v>> : u \in ProfileUrls, v \in ProfileUrls}
    /\ status = "running"
    /\ progress = 0
    /\ message = "progress"
    /\ leads = <<>>
    /\ error = "none"
    /\ jobScraper = TRUE
    /\ shouldStop = FALSE
    /\ partialLeads = <<>>
    /\ driver = "none"
    /\ pc = "dd_parse"
    /\ exc = "none"
    /\ qi = 0
    /\ page = 0
    /\ attempt = 0
    /\ results = <<>>
    /\ numPages = 0
    /\ seen = {}
    /\ found = <<>>
    /\ idx = 0
    /\ snippetLeads = <<>>
    /\ tasks = <<>>
    /\ doneCount = 0
    /\ hpc = [h \in Handlers |-> "idle"]
    /\ hPartial = [h \in Handlers |-> <<>>]
    /\ stopObs = [obs |-> FALSE, ids |-> {}, early |-> FALSE,
                  pool |-> FALSE]

(* one round of "for idx, result in enumerate(all_results)" *)
DdParse ==
    /\ pc = "dd_parse"
    /\ idx < Len(allResults)
    /\ idx' = idx + 1
    /\ LET u == allResults[idx + 1]
       IN IF DedupKey(tool, u) \in seen
          THEN UNCHANGED <<seen, found>>
          ELSE /\ seen' = seen \cup {DedupKey(tool, u)}
               /\ found' = Append(found, ProfileUrl(tool, u))
    /\ UNCHANGED <<tool, jobVars, scraperVars, pc, exc, qi, pageVars,
                   allResults, poolVars, handlerVars, stopObs>>

(* cleaned = clean_*_leads(raw); job.leads = cleaned: raw leads already     *)
(* have distinct keys, the cleaning keeps the first lead of every key       *)
DdClean ==
    /\ pc = "dd_parse"
    /\ idx = Len(allResults)
    /\ leads' = SelectSeq(found,
                   LAMBDA l : \A i \in DOMAIN found :
                       (DedupKey(tool, found[i]) = DedupKey(tool, l)
                           => \A j \in DOMAIN found :
                                 found[j] = l => i <= j))
    /\ pc' = "dd_done"
    /\ UNCHANGED <<tool, status, progress, message, error, jobScraper,
                   scraperVars, exc, loopVars, handlerVars, stopObs>>

DedupNext == DdParse \/ DdClean

SpecDedup == DedupInit /\ [][DedupNext]_vars

-----------------------------------------------------------------------------
(* Enrichment of one lead: InstagramScraper._enrich_profiles (one profile   *)
(* page merged into the lead) and _scrape_website of GoogleMapsScraper and  *)
(* WebCrawlerScraper (one website scanned for e-mails and social links).    *)
(* An address is <<local part, domain label, top-level label>>, a link is   *)
(* <<site, handle>>, a text field is "" (dataclass default), "N/A" or a     *)
(* real string, an e-mail field is the set of the addresses joined by "; ", *)
(* a social field is a link or <<>>.                                        *)

(* str.lower() *)
Lower(e) ==
    [i \in DOMAIN e |-> CASE e[i] = "EXAMPLE" -> "example"
                          [] e[i] = "PNG" -> "png"
                          [] OTHER -> e[i]]

(* entries of EMAIL_BLACKLIST, common to the three scrapers *)
EMAIL_BLACKLIST == {<<"example", "com">>, <<"sentry", "io">>}

(* a validator that only looks for the "@" *)
HasAt(e) == Len(e) >= 2

(* _is_valid_email: domain = email.split("@")[1].lower() *)
is_valid_email(e) ==
    /\ Len(e) >= 2
    /\ Tail(Lower(e)) \notin EMAIL_BLACKLIST
    /\ Lower(e)[Len(e)] \notin {"png", "jpg", "gif", "svg", "webp", "js", "css"}

(* a merge that copies every key of the enrichment, found or not *)
MergeBlind(lead, data) == [f \in DOMAIN lead |-> data[f]]

(* _merge_enrichment: a key the profile page did not give is absent from    *)
(* the enrichment dict ("" or {} here)                                      *)
merge_enrichment(lead, data) ==
    [f \in DOMAIN lead |->
        CASE f = "email" ->
               IF data[f] # {} /\ lead[f] = {} THEN data[f] ELSE lead[f]
          [] f = "display_name" ->
               IF data[f] # "" /\ lead[f] \in {"", "N/A"} THEN data[f]
               ELSE lead[f]
          [] OTHER -> IF data[f] # "" THEN data[f] ELSE lead[f]]

(* the lead as the search phase left it and the page the enrichment will    *)
(* fetch; found = <<lead>>, results = <<page>>                              *)
EnrichInit ==
    LET Addresses == {<<"info", "shop", "com">>, <<"me", "EXAMPLE", "com">>,
                      <<"logo", "2x", "png">>}
        Links == {<<"facebook", "shop">>, <<"instagram", "shop">>,
                  <<"other", "shop">>}
        Mails == {<<>>} \cup {<<a>> : a \in Addresses}
                    \cup {<<a, b>> : a \in Addresses, b \in Addresses}
        Hrefs == {<<>>} \cup {<<a>> : a \in Links}
                    \cup {<<a, b>> : a \in Links, b \in Links}
    IN  /\ tool \in {"instagram", "gmaps", "webcrawler"}
        /\ \/ /\ tool = "instagram"
              /\ \E snippet \in SUBSET Addresses,
                    name \in {"", "a"}, bio \in {"", "a"} :
                   found = <<[display_name |-> name, bio |-> bio,
                              email |-> {Lower(m) : m \in
                                  {x \in snippet : is_valid_email(x)}},
                              phone |-> "", website |-> "",
                              category |-> "", followers |-> ""]>>
              /\ \E mails \in Mails :
                   \E html \in [{"display_name", "bio", "phone", "website",
                                 "category", "followers"} -> {"", "b"}] :
                      results = <<[f \in DOMAIN html \cup {"email"} |->
                                      IF f = "email" THEN mails ELSE html[f]]>>
           \/ /\ tool \in {"gmaps", "webcrawler"}
              /\ \E phone \in IF tool = "gmaps" THEN {"", "a"} ELSE {""} :
                   found = <<[website |-> "a", phone |-> phone, email |-> {},
                              facebook |-> <<>>, instagram |-> <<>>],
                             [email |-> {}, phone |-> "",
                              facebook |-> <<>>, instagram |-> <<>>]>>
              /\ \E mails \in Mails, hrefs \in Hrefs,
                    more \in {m \in Mails : Len(m) <= 1},
                    links \in {h \in Hrefs : Len(h) <= 1},
                    tel \in {"", "b"}, tel2 \in {"", "b"} :
                   results = <<[email |-> mails, hrefs |-> hrefs,
                                phone |-> tel],
                               [email |-> more, hrefs |-> links,
                                phone |-> tel2]>>
        /\ status = "running"
        /\ progress = 0
        /\ message = "progress"
        /\ leads = <<>>
        /\ error = "none"
        /\ jobScraper = TRUE
        /\ shouldStop = FALSE
        /\ partialLeads = <<>>
        /\ driver = "none"
        /\ pc = "en_start"
        /\ exc = "none"
        /\ qi = 0
        /\ page = 0
        /\ attempt = 0
        /\ numPages = 0
        /\ allResults = <<>>
        /\ seen = {}
        /\ idx = 0
        /\ snippetLeads = <<>>
        /\ tasks = <<>>
        /\ doneCount = 0
        /\ hpc = [h \in Handlers |-> "idle"]
        /\ hPartial = [h \in Handlers |-> <<>>]
        /\ stopObs = [obs |-> FALSE, ids |-> {}, early |-> FALSE,
                      pool |-> FALSE]

(* enrichment = self._enrich_single_profile(username, session);             *)
(* if enrichment: self._merge_enrichment(leads[idx], enrichment).           *)
(* "business_email" (kept as written) comes first, then the first address   *)
(* of EMAIL_RE.findall(html) that is valid (lower-cased)                    *)
EnMerge ==
    /\ pc = "en_start"
    /\ tool = "instagram"
    /\ LET html == results[1]
           valid == SelectSeq(html.email, is_valid_email)
           data == [html EXCEPT !.email =
                       IF valid = <<>> THEN {}
                       ELSE IF valid[1] = html.email[1] THEN {valid[1]}
                       ELSE {Lower(valid[1])}]
       IN leads' = <<merge_enrichment(found[1], data)>>
    /\ pc' = "en_done"
    /\ UNCHANGED <<tool, status, progress, message, error, jobScraper,
                   scraperVars, exc, loopVars, handlerVars, stopObs>>

(* _scrape_website, one round of "for page_url in pages_to_check" (the      *)
(* home page, then a contact path).  found[2] holds all_emails, all_phones  *)
(* (web crawler only) and found_socials: all_emails.add(match.lower()) for  *)
(* the valid addresses, found_socials[platform] = the first link its        *)
(* pattern matches.  The loop ends after the last path or at the early      *)
(* exit; then "if all_emails: lead.email = ...", "if all_phones:            *)
(* lead.phone = ..." and setattr(lead, platform, url_val).                  *)
EnScan ==
    /\ pc \in {"en_start", "en_scan"}
    /\ tool \in {"gmaps", "webcrawler"}
    /\ page < Len(results)
    /\ LET text == results[page + 1]
           old == found[2]
           matches(p) == SelectSeq(text.hrefs, LAMBDA h : h[1] = p)
           social(p) == IF old[p] # <<>> \/ matches(p) = <<>> THEN old[p]
                        ELSE matches(p)[1]
           acc == [email |-> old.email \cup
                       {Lower(text.email[i]) : i \in
                           {j \in DOMAIN text.email :
                               is_valid_email(text.email[j])}},
                   phone |-> IF tool = "webcrawler" /\ old.phone = ""
                             THEN text.phone ELSE old.phone,
                   facebook |-> social("facebook"),
                   instagram |-> social("instagram")]
           early == /\ acc.email # {}
                    /\ tool = "webcrawler" => acc.phone # ""
                    /\ acc.facebook # <<>>
                    /\ acc.instagram # <<>>
       IN /\ found' = <<found[1], acc>>
          /\ page' = page + 1
          /\ IF early \/ page + 1 = Len(results)
             THEN /\ pc' = "en_done"
                  /\ leads' = <<[found[1] EXCEPT
                         !.email = IF acc.email # {} THEN acc.email ELSE @,
                         !.phone = IF acc.phone # "" THEN acc.phone ELSE @,
                         !.facebook = acc.facebook,
                         !.instagram = acc.instagram]>>
             ELSE /\ pc' = "en_scan"
                  /\ UNCHANGED leads
    /\ UNCHANGED <<tool, status, progress, message, error, jobScraper,
                   scraperVars, exc, qi, attempt, results, numPages,
                   allResults, seen, idx, poolVars, handlerVars, stopObs>>

(* a cleaning that copies the raw fields *)
KeepFields(lead) == lead

(* the dict every clean_*_leads builds: lead.get(f, "N/A") or "N/A" for     *)
(* each field; the marker takes the shape of the field it replaces          *)
clean_fields(lead) ==
    [f \in DOMAIN lead |->
        CASE f = "email" -> IF lead[f] = {} THEN {<<"N/A">>} ELSE lead[f]
          [] f \in {"facebook", "instagram"} ->
               IF lead[f] = <<>> THEN <<"N/A">> ELSE lead[f]
          [] OTHER -> IF lead[f] = "" THEN "N/A" ELSE lead[f]]

(* cleaned = clean_*_leads(raw); job.leads = cleaned *)
EnClean ==
    /\ pc = "en_done"
    /\ leads' = <<clean_fields(leads[1])>>
    /\ pc' = "en_cleaned"
    /\ UNCHANGED <<tool, status, progress, message, error, jobScraper,
                   scraperVars, exc, loopVars, handlerVars, stopObs>>

EnrichNext == EnMerge \/ EnScan \/ EnClean

SpecEnrich == EnrichInit /\ [][EnrichNext]_vars

-----------------------------------------------------------------------------
(* Parsing one fetched Google results page: the chain                       *)
(* _parse_google_divg() or _parse_google_broad() or _parse_google_regex()   *)
(* of InstagramScraper and the "if not page_results" chain of               *)
(* LinkedInScraper.  allResults[n] is what strategy n returns on this page  *)
(* if it is called, idx counts the strategies called so far, results is     *)
(* page_results.                                                            *)

(* a chain that goes on whatever the strategy before returned *)
CallNext(page_results) == TRUE

(* the left operand of "or" is falsy / "if not page_results" *)
NeedsNext(page_results) == page_results = <<>>

ParseInit ==
    /\ tool \in {"instagram", "linkedin"}
    /\ allResults \in [1 .. 3 -> RawPages]
    /\ status = "running"
    /\ progress = 0
    /\ message = "progress"
    /\ leads = <<>>
    /\ error = "none"
    /\ jobScraper = TRUE
    /\ shouldStop = FALSE
    /\ partialLeads = <<>>
    /\ driver = "open"
    /\ pc = "ps_chain"
    /\ exc = "none"
    /\ qi = 0
    /\ page = 0
    /\ attempt = 0
    /\ results = <<>>
    /\ numPages = 1
    /\ seen = {}
    /\ found = <<>>
    /\ idx = 0
    /\ snippetLeads = <<>>
    /\ tasks = <<>>
    /\ doneCount = 0
    /\ hpc = [h \in Handlers |-> "idle"]
    /\ hPartial = [h \in Handlers |-> <<>>]
    /\ stopObs = [obs |-> FALSE, ids |-> {}, early |-> FALSE,
                  pool |-> FALSE]

(* the next strategy of the chain is called and its records become          *)
(* page_results                                                             *)
PsInvoke ==
    /\ pc = "ps_chain"
    /\ idx < 3
    /\ idx > 0 => NeedsNext(results)
    /\ idx' = idx + 1
    /\ results' = allResults[idx + 1]
    /\ UNCHANGED <<tool, jobVars, scraperVars, pc, exc, qi, page, attempt,
                   numPages, allResults, seen, found, poolVars, handlerVars,
                   stopObs>>

SpecParse == ParseInit /\ [][PsInvoke]_vars

-----------------------------------------------------------------------------
(* Planning the queries of one Instagram run: _expand_keywords(), the two   *)
(* query builders and the slice that the Google phase walks.  A word is     *)
(* <<kind, n, upper>>: n names its letters, upper tells whether it holds an *)
(* upper-case letter, kind tells how it was made ("w" a keyword or a        *)
(* synonym, "var" the singular/plural variation, a suffix name for          *)
(* "<keyword> <suffix>").  found is <<keyword>>, page is place, exc is      *)
(* search_type, allResults is the synonym list that the dictionary lookup   *)
(* appends, results is related, snippetLeads is queries, partialLeads is    *)
(* google_queries and qi counts the queries issued to Google.               *)

MaxSyn == 16

PlanKeywords == {<<"w", 1, FALSE>>, <<"w", 1, TRUE>>}

(* w.lower() *)
LowerWord(w) == <<w[1], w[2], FALSE>>

(* n synonyms with different letters *)
DistinctSyn(n) == [i \in 1 .. n |-> <<"w", 10 + i, FALSE>>]

(* synonym lists: entries that repeat the keyword or a later synonym in     *)
(* another case, followed by n distinct synonyms                            *)
SynHeads ==
    LET W == PlanKeywords \cup {<<"w", 11, TRUE>>}
    IN  {<<>>} \cup {<<a>> : a \in W} \cup {<<a, b>> : a \in W, b \in W}

SynLists == {h \o DistinctSyn(n) : h \in SynHeads, n \in 0 .. MaxSyn}

BUSINESS_SUFFIXES ==
    <<"agency", "company", "services", "group", "solutions", "official",
      "team", "hub", "pro", "studio">>

(* keyword, the matched synonyms, and the basic variations when there are   *)
(* none                                                                     *)
Expanded(keyword, synonyms) ==
    IF synonyms # <<>>
    THEN <<keyword>> \o synonyms
    ELSE <<keyword, <<"var", keyword[2], FALSE>>>>
            \o [k \in 1 .. 4 |-> <<BUSINESS_SUFFIXES[k], keyword[2],
                                   keyword[3]>>]

RECURSIVE UniqueFrom(_, _, _)
UniqueFrom(expanded, i, unique) ==
    IF i > Len(expanded) THEN unique
    ELSE IF \E j \in DOMAIN unique :
                LowerWord(unique[j]) = LowerWord(expanded[i])
         THEN UniqueFrom(expanded, i + 1, unique)
         ELSE UniqueFrom(expanded, i + 1, Append(unique, expanded[i]))

(* s[:n] *)
Take(s, n) == SubSeq(s, 1, Min(n, Len(s)))

(* an expansion that returns every unique word *)
expand_all(keyword, synonyms) ==
    UniqueFrom(Expanded(keyword, synonyms), 1, <<>>)

expand_keywords(keyword, synonyms) ==
    Take(UniqueFrom(Expanded(keyword, synonyms), 1, <<>>), 15)

build_profile_queries(keyword, place, related) ==
    [i \in 1 .. Len(Take(related, 8)) |-> <<"site", related[i], place>>]
    \o [i \in 1 .. 2 |-> <<"email", keyword, place, i>>]
    \o [i \in 1 .. 3 |-> <<"contact", keyword, place, i>>]
    \o [i \in 1 .. Len(Take(related, 4)) |-> <<"plain", related[i], place>>]
    \o <<<<"phrase", keyword, place>>, <<"phrase", place, keyword>>>>
    \o [i \in 1 .. Len(Take(related, 3)) |-> <<"at", related[i], place>>]
    \o <<<<"follow", keyword, place>>>>
    \o (IF Len(related) > 3
        THEN <<<<"or", related[2], related[3], place>>>>
        ELSE <<>>)

build_business_queries(keyword, place, related) ==
    LET rel == SubSeq(related, 2, Min(4, Len(related)))
    IN  [i \in 1 .. 7 |-> <<"term", keyword, place, i>>]
        \o [i \in 1 .. Len(Take(related, 8)) |-> <<"site", related[i], place>>]
        \o [i \in 1 .. 4 |-> <<"combined", keyword, place, i>>]
        \o [i \in 1 .. 3 |-> <<"contact", keyword, place, i>>]
        \o [i \in 1 .. Len(Take(related, 4)) |->
               <<"plain", related[i], place>>]
        \o [i \in 1 .. 2 |-> <<"corporate", keyword, place, i>>]
        \o <<<<"phrase", keyword, place>>, <<"phrase", place, keyword>>>>
        \o [i \in 1 .. 3 * Len(rel) |->
               <<"term", rel[((i - 1) \div 3) + 1], place,
                 ((i - 1) % 3) + 1>>]
        \o <<<<"luxury", keyword, place>>>>

PlanInit ==
    /\ tool = "instagram"
    /\ found \in {<<k>> : k \in PlanKeywords}
    /\ page \in 1 .. 2
    /\ exc \in {"profiles", "businesses"}
    /\ allResults \in SynLists
    /\ status = "running"
    /\ progress = 0
    /\ message = "progress"
    /\ leads = <<>>
    /\ error = "none"
    /\ jobScraper = TRUE
    /\ shouldStop = FALSE
    /\ partialLeads = <<>>
    /\ driver = "none"
    /\ pc = "pl_build"
    /\ qi = 0
    /\ attempt = 0
    /\ results = <<>>
    /\ numPages = 1
    /\ seen = {}
    /\ idx = 0
    /\ snippetLeads = <<>>
    /\ tasks = <<>>
    /\ doneCount = 0
    /\ hpc = [h \in Handlers |-> "idle"]
    /\ hPartial = [h \in Handlers |-> <<>>]
    /\ stopObs = [obs |-> FALSE, ids |-> {}, early |-> FALSE,
                  pool |-> FALSE]

planFrame ==
    <<tool, status, progress, message, leads, error, jobScraper, shouldStop,
      exc, page, attempt, numPages, allResults, seen, found, idx, tasks,
      doneCount, handlerVars, stopObs>>

(* scrape() builds the queries of the requested mode *)
PlBuild ==
    /\ pc = "pl_build"
    /\ results' = expand_keywords(found[1], allResults)
    /\ snippetLeads' =
          IF exc = "businesses"
          THEN build_business_queries(found[1], page, results')
          ELSE build_profile_queries(found[1], page, results')
    /\ pc' = "pl_ddg"
    /\ UNCHANGED <<planFrame, partialLeads, driver, qi>>

(* after the DuckDuckGo phase the browser starts and the Google slice is    *)
(* taken                                                                    *)
PlSlice ==
    /\ pc = "pl_ddg"
    /\ driver' = "open"
    /\ partialLeads' = Take(snippetLeads,
                            Min(GoogleQueryCap, Len(snippetLeads)))
    /\ pc' = "pl_google"
    /\ UNCHANGED <<planFrame, results, snippetLeads, qi>>

(* one round of "for qi, query in enumerate(google_queries)" *)
PlIssue ==
    /\ pc = "pl_google"
    /\ IF qi < Len(partialLeads)
       THEN \/ qi' = qi + 1 /\ pc' = pc
            \/ qi' = qi /\ pc' = "pl_done"      \* "break"
       ELSE qi' = qi /\ pc' = "pl_done"
    /\ UNCHANGED <<planFrame, results, snippetLeads, partialLeads, driver>>

PlanNext == PlBuild \/ PlSlice \/ PlIssue

SpecPlan == PlanInit /\ [][PlanNext]_vars

-----------------------------------------------------------------------------
(* GoogleMapsScraper._scroll_results for one query, with the rounds of its  *)
(* loop counted.  attempt is scroll_attempts, page is last_height, idx is   *)
(* the number of scroll cycles executed so far; the panel answers each      *)
(* scroll with an end marker or with a new scrollHeight.                    *)

MaxCycles == 52
MaxHeight == 2

ScrollInit ==
    /\ tool = "gmaps"
    /\ attempt = 0
    /\ page = 0
    /\ idx = 0
    /\ pc = "sc_loop"
    /\ shouldStop = FALSE
    /\ status = "running"
    /\ progress = 15
    /\ message = "progress"
    /\ leads = <<>>
    /\ error = "none"
    /\ jobScraper = TRUE
    /\ partialLeads = <<>>
    /\ driver = "open"
    /\ exc = "none"
    /\ qi = 0
    /\ results = <<>>
    /\ numPages = 1
    /\ allResults = <<>>
    /\ seen = {}
    /\ found = <<>>
    /\ snippetLeads = <<>>
    /\ tasks = <<>>
    /\ doneCount = 0
    /\ hpc = [h \in Handlers |-> "idle"]
    /\ hPartial = [h \in Handlers |-> <<>>]
    /\ stopObs = [obs |-> FALSE, ids |-> {}, early |-> FALSE,
                  pool |-> FALSE]

scrollFrame ==
    <<tool, status, leads, error, jobScraper, partialLeads, driver, exc, qi,
      results, numPages, allResults, seen, found, snippetLeads, tasks,
      doneCount, handlerVars, stopObs>>

(* stop() from the request thread *)
ScStop ==
    /\ pc = "sc_loop"
    /\ ~shouldStop
    /\ shouldStop' = TRUE
    /\ UNCHANGED <<scrollFrame, progress, message, pc, attempt, page, idx>>

(* one round of "while scroll_attempts < max_scroll_attempts" *)
ScCycle ==
    /\ pc = "sc_loop"
    /\ idx < MaxCycles
    /\ IF attempt >= MaxScrollAttempts
       THEN /\ pc' = "sc_done"
            /\ UNCHANGED <<progress, message, attempt, page, idx>>
       ELSE IF shouldStop
       THEN /\ Report("stopped", -1)
            /\ pc' = "sc_done"
            /\ UNCHANGED <<attempt, page, idx>>
       ELSE /\ idx' = idx + 1
            /\ \/ /\ Report("progress", 30)          \* end of list marker
                  /\ pc' = "sc_done"
                  /\ UNCHANGED <<attempt, page>>
               \/ \E new_height \in 0 .. MaxHeight :
                     IF new_height = page
                     THEN /\ attempt' = attempt + 1
                          /\ page' = page
                          /\ IF attempt' >= StallLimit
                             THEN /\ Report("progress", 30)
                                  /\ pc' = "sc_done"
                             ELSE /\ Report("progress",
                                            Min(30, 15 + attempt'))
                                  /\ pc' = "sc_loop"
                     ELSE /\ attempt' = 0
                          /\ page' = new_height
                          /\ Report("progress", Min(30, 15 + attempt'))
                          /\ pc' = "sc_loop"
    /\ UNCHANGED <<scrollFrame, shouldStop>>

ScrollNext == ScStop \/ ScCycle

SpecScroll == ScrollInit /\ [][ScrollNext]_vars

-----------------------------------------------------------------------------
(* _cleanup_jobs(store, max_keep), called by a runner thread in its finally *)
(* block while the request threads and the other runners go on.  allResults *)
(* is the store: a job that was never created has status "absent", a job    *)
(* that was popped keeps its record with removed = TRUE; job ids are in     *)
(* insertion order.  results is the local list finished (sorted), idx the   *)
(* position of the loop over finished[: len(finished) - max_keep], numPages *)
(* is max_keep.                                                             *)

MaxJobs == 3
MaxTime == 2
MaxKeep == 2

JobIds == 1 .. MaxJobs

InStore(store, j) == store[j].status # "absent" /\ ~store[j].removed

Finished(store) ==
    {j \in JobIds : InStore(store, j) /\ store[j].status \in Terminal}

(* list.sort(key=started_at): stable, ties stay in dictionary order *)
RECURSIVE SortByStart(_, _)
SortByStart(store, js) ==
    IF js = {} THEN <<>>
    ELSE LET first == CHOOSE j \in js : \A k \in js \ {j} :
                         \/ store[j].started_at < store[k].started_at
                         \/ /\ store[j].started_at = store[k].started_at
                            /\ j < k
         IN  <<first>> \o SortByStart(store, js \ {first})

CleanupInit ==
    /\ allResults \in [JobIds -> [status : Statuses \cup {"absent"},
                                  started_at : 1 .. MaxTime,
                                  removed : {FALSE}]]
    /\ numPages \in 0 .. MaxKeep
    /\ results = <<>>
    /\ idx = 0
    /\ pc = "cu_start"
    /\ tool = "gmaps"
    /\ status = "completed"
    /\ progress = 100
    /\ message = "done"
    /\ leads = <<>>
    /\ error = "none"
    /\ jobScraper = FALSE
    /\ shouldStop = FALSE
    /\ partialLeads = <<>>
    /\ driver = "none"
    /\ exc = "none"
    /\ qi = 0
    /\ page = 0
    /\ attempt = 0
    /\ seen = {}
    /\ found = <<>>
    /\ snippetLeads = <<>>
    /\ tasks = <<>>
    /\ doneCount = 0
    /\ hpc = [h \in Handlers |-> "idle"]
    /\ hPartial = [h \in Handlers |-> <<>>]
    /\ stopObs = [obs |-> FALSE, ids |-> {}, early |-> FALSE,
                  pool |-> FALSE]

cleanupFrame ==
    <<tool, jobVars, scraperVars, exc, qi, page, attempt, numPages, seen,
      found, snippetLeads, tasks, doneCount, handlerVars, stopObs>>

(* finished = [...]; if len(finished) <= max_keep: return; finished.sort() *)
CuSnapshot ==
    /\ pc = "cu_start"
    /\ results' = SortByStart(allResults, Finished(allResults))
    /\ idx' = 1
    /\ pc' = IF Len(results') <= numPages THEN "cu_done" ELSE "cu_pop"
    /\ UNCHANGED <<cleanupFrame, allResults>>

(* a job is inserted while the list comprehension iterates store.items():   *)
(* RuntimeError, nothing is removed                                         *)
CuRaise ==
    /\ pc = "cu_start"
    /\ \E j \in JobIds :
          /\ allResults[j].status = "absent"
          /\ allResults' = [allResults EXCEPT ![j].status = "running",
                                              ![j].started_at = MaxTime + 1]
    /\ pc' = "cu_raised"
    /\ UNCHANGED <<cleanupFrame, results, idx>>

(* one round of "for jid, _ in finished[: len(finished) - max_keep]" *)
CuPop ==
    /\ pc = "cu_pop"
    /\ IF idx <= Len(results) - numPages
       THEN /\ allResults' = [allResults EXCEPT ![results[idx]].removed = TRUE]
            /\ idx' = idx + 1
            /\ pc' = pc
       ELSE /\ pc' = "cu_done"
            /\ UNCHANGED <<allResults, idx>>
    /\ UNCHANGED <<cleanupFrame, results>>

(* another job of the store ends meanwhile: its runner sets completed or    *)
(* failed, its stop route sets stopped                                      *)
JobEnds ==
    /\ pc \in {"cu_start", "cu_pop"}
    /\ \E j \in JobIds, s \in Terminal :
          /\ InStore(allResults, j)
          /\ allResults[j].status = "running"
          /\ allResults' = [allResults EXCEPT ![j].status = s]
    /\ UNCHANGED <<cleanupFrame, results, idx, pc>>

(* a request thread creates a job meanwhile *)
JobSubmit ==
    /\ pc = "cu_pop"
    /\ \E j \in JobIds :
          /\ allResults[j].status = "absent"
          /\ allResults' = [allResults EXCEPT ![j].status = "running",
                                              ![j].started_at = MaxTime + 1]
    /\ UNCHANGED <<cleanupFrame, results, idx, pc>>

CleanupNext == CuSnapshot \/ CuRaise \/ CuPop \/ JobEnds \/ JobSubmit

SpecCleanup == CleanupInit /\ [][CleanupNext]_vars

-----------------------------------------------------------------------------
(* The results endpoints (job_results, linkedin_results, instagram_results, *)
(* webcrawler_results).  seen is the set of job ids of the store (one job,  *)
(* id 1, or none), qi the job_id of the request, exc the HTTP status of the *)
(* response and results its "leads" entry: <<>> when the body has none,     *)
(* <<job.leads>> when it has.                                               *)

(* a test that lets every finished job through *)
AnyFinished(s) == s \in Terminal

(* not (job.status not in ("completed", "stopped")) *)
ResultsReady(s) == s \in {"completed", "stopped"}

ResultsInit ==
    /\ tool \in Tools
    /\ seen \in {{}, {1}}
    /\ status = "running"
    /\ progress = 0
    /\ message = "starting"
    /\ leads = <<>>
    /\ error = "none"
    /\ pc = "rs_idle"
    /\ exc = "none"
    /\ qi = 0
    /\ results = <<>>
    /\ jobScraper = FALSE
    /\ shouldStop = FALSE
    /\ partialLeads = <<>>
    /\ driver = "none"
    /\ page = 0
    /\ attempt = 0
    /\ numPages = 1
    /\ allResults = <<>>
    /\ found = <<>>
    /\ idx = 0
    /\ snippetLeads = <<>>
    /\ tasks = <<>>
    /\ doneCount = 0
    /\ hpc = [h \in Handlers |-> "idle"]
    /\ hPartial = [h \in Handlers |-> <<>>]
    /\ stopObs = [obs |-> FALSE, ids |-> {}, early |-> FALSE,
                  pool |-> FALSE]

resultsFrame ==
    <<tool, seen, jobScraper, scraperVars, page, attempt, numPages,
      allResults, found, idx, poolVars, handlerVars, stopObs>>

(* the runner or a stop route writes the job between two requests *)
RsJobWrites ==
    /\ pc = "rs_idle"
    /\ seen # {}
    /\ \E s \in Statuses, l \in {<<>>, <<1>>, <<1, 2>>} :
          /\ status' = s
          /\ leads' = l
          /\ error' = IF s = "failed" THEN "scrape_error" ELSE "none"
    /\ Report("progress", 50)
    /\ UNCHANGED <<resultsFrame, pc, exc, qi, results>>

(* GET .../results/<job_id> *)
RsRequest ==
    /\ pc = "rs_idle"
    /\ \E job_id \in 1 .. 2 :
          /\ qi' = job_id
          /\ IF job_id \notin seen
             THEN exc' = "404" /\ results' = <<>>
             ELSE IF ~ResultsReady(status)
             THEN exc' = "400" /\ results' = <<>>
             ELSE exc' = "200" /\ results' = <<leads>>
    /\ pc' = "rs_sent"
    /\ UNCHANGED <<resultsFrame, jobVars>>

(* the response is delivered *)
RsDeliver ==
    /\ pc = "rs_sent"
    /\ pc' = "rs_idle"
    /\ UNCHANGED <<resultsFrame, jobVars, exc, qi, results>>

ResultsNext == RsJobWrites \/ RsRequest \/ RsDeliver

SpecResults == ResultsInit /\ [][ResultsNext]_vars

-----------------------------------------------------------------------------
(* clean_leads on whole records, applied to a raw list and then to its own  *)
(* output.  A lead is [business_name, phone, website]; a website is         *)
(* [http, rest]: http tells whether the text starts with "http", rest is    *)
(* the text after the scheme ("" for no text at all).  found is the raw     *)
(* list, leads the first output, results the output of the second call.     *)

MaxLeads == 2

RawNames == {"", "Unknown", "Acme", " Acme"}
RawPhones == {"", "N/A", "555", "tel:555"}
RawWebsites == {[http |-> FALSE, rest |-> ""],
                [http |-> FALSE, rest |-> "acme.com"],
                [http |-> TRUE, rest |-> "acme.com"]}

RawLeads == [business_name : RawNames, phone : RawPhones,
             website : RawWebsites]

(* name.strip() *)
StripName(name) == IF name = " Acme" THEN "Acme" ELSE name

(* name.lower() == "unknown" *)
IsUnknown(name) == name \in {"Unknown", "unknown"}

(* re.sub(r"[^\d+\-() ]", "", phone).strip() *)
PhoneChars(phone) ==
    CASE phone = "tel:555" -> "555"
      [] phone = "N/A" -> ""
      [] OTHER -> phone

NoText == [http |-> FALSE, rest |-> ""]
NotAvailable == [http |-> FALSE, rest |-> "N/A"]

(* if website and not website.startswith("http"): "https://" + website *)
WithScheme(website) ==
    IF website # NoText /\ ~website.http
    THEN [http |-> TRUE, rest |-> website.rest]
    ELSE website

(* the dict appended for one lead *)
CleanRecord(lead) ==
    [business_name |-> StripName(lead.business_name),
     phone |-> IF lead.phone = "" \/ PhoneChars(lead.phone) = ""
               THEN "N/A" ELSE PhoneChars(lead.phone),
     website |-> IF WithScheme(lead.website) = NoText
                 THEN NotAvailable ELSE WithScheme(lead.website)]

RECURSIVE CleanRecordsFrom(_, _)
CleanRecordsFrom(s, seen_names) ==
    IF s = <<>> THEN <<>>
    ELSE LET name == StripName(Head(s).business_name)
         IN  IF name = "" \/ IsUnknown(name) \/ name \in seen_names
             THEN CleanRecordsFrom(Tail(s), seen_names)
             ELSE <<CleanRecord(Head(s))>>
                     \o CleanRecordsFrom(Tail(s), seen_names \cup {name})

CleanTwiceInit ==
    /\ tool = "gmaps"
    /\ found \in UNION {[1 .. n -> RawLeads] : n \in 0 .. MaxLeads}
    /\ leads = <<>>
    /\ results = <<>>
    /\ pc = "cl_raw"
    /\ status = "running"
    /\ progress = 100
    /\ message = "progress"
    /\ error = "none"
    /\ jobScraper = TRUE
    /\ shouldStop = FALSE
    /\ partialLeads = <<>>
    /\ driver = "none"
    /\ exc = "none"
    /\ qi = 0
    /\ page = 0
    /\ attempt = 0
    /\ numPages = 1
    /\ allResults = <<>>
    /\ seen = {}
    /\ idx = 0
    /\ snippetLeads = <<>>
    /\ tasks = <<>>
    /\ doneCount = 0
    /\ hpc = [h \in Handlers |-> "idle"]
    /\ hPartial = [h \in Handlers |-> <<>>]
    /\ stopObs = [obs |-> FALSE, ids |-> {}, early |-> FALSE,
                  pool |-> FALSE]

cleanFrame ==
    <<tool, status, progress, message, error, jobScraper, scraperVars, exc,
      qi, page, attempt, numPages, allResults, seen, found, idx, poolVars,
      handlerVars, stopObs>>

(* cleaned = clean_leads(raw_leads) *)
ClOnce ==
    /\ pc = "cl_raw"
    /\ leads' = CleanRecordsFrom(found, {})
    /\ pc' = "cl_once"
    /\ UNCHANGED <<cleanFrame, results>>

(* clean_leads(cleaned) *)
ClTwice ==
    /\ pc = "cl_once"
    /\ results' = CleanRecordsFrom(leads, {})
    /\ pc' = "cl_twice"
    /\ UNCHANGED <<cleanFrame, leads>>

SpecCleanTwice == CleanTwiceInit /\ [][ClOnce \/ ClTwice]_vars

-----------------------------------------------------------------------------
(* WebCrawlerScraper.scrape from the search results to the cleaned list,    *)
(* with the origin of every lead kept.  A lead is [website, kind]: website  *)
(* is the URL it was built from (_scrape_website and                        *)
(* _extract_lead_from_snippet both set lead.website = url), kind tells      *)
(* whether the deep scrape or the snippet made it.  allResults is           *)
(* all_search_results, snippetLeads snippet_leads, results unique_urls,     *)
(* tasks the state of the task of every unique URL, found deep_leads and    *)
(* leads the list the runner stores.                                        *)

WebUrls == 1 .. (MaxId + 2)

DeepLead(u) == [website |-> u, kind |-> "deep"]
SnippetLead(u) == [website |-> u, kind |-> "snippet"]

(* keep the first lead of every key: the website, or its domain *)
RECURSIVE FirstByWebsite(_, _, _)
FirstByWebsite(s, seen_keys, byDomain) ==
    IF s = <<>> THEN <<>>
    ELSE LET key == IF byDomain THEN IdOf(Head(s).website)
                    ELSE Head(s).website
         IN  IF key \in seen_keys
             THEN FirstByWebsite(Tail(s), seen_keys, byDomain)
             ELSE <<Head(s)>>
                     \o FirstByWebsite(Tail(s), seen_keys \cup {key},
                                       byDomain)

(* a merge that walks the snippet leads first *)
SnippetsFirst(deep, snippets) == FirstByWebsite(snippets \o deep, {}, FALSE)

(* Phase 3: deep leads first, then snippet leads, key lead.website *)
MergeWebLeads(deep, snippets) == FirstByWebsite(deep \o snippets, {}, FALSE)

(* clean_web_leads: key urlparse(website).netloc.lower() *)
CleanWebLeads(s) == FirstByWebsite(s, {}, TRUE)

WebMergeInit ==
    /\ tool = "webcrawler"
    /\ allResults = <<>>
    /\ snippetLeads = <<>>
    /\ results = <<>>
    /\ tasks = <<>>
    /\ found = <<>>
    /\ leads = <<>>
    /\ pc = "wm_search"
    /\ status = "running"
    /\ progress = 0
    /\ message = "progress"
    /\ error = "none"
    /\ jobScraper = TRUE
    /\ shouldStop = FALSE
    /\ partialLeads = <<>>
    /\ driver = "open"
    /\ exc = "none"
    /\ qi = 0
    /\ page = 0
    /\ attempt = 0
    /\ numPages = 1
    /\ seen = {}
    /\ idx = 0
    /\ doneCount = 0
    /\ hpc = [h \in Handlers |-> "idle"]
    /\ hPartial = [h \in Handlers |-> <<>>]
    /\ stopObs = [obs |-> FALSE, ids |-> {}, early |-> FALSE,
                  pool |-> FALSE]

webFrame ==
    <<tool, status, progress, message, error, jobScraper, shouldStop,
      partialLeads, exc, qi, page, attempt, numPages, seen, idx,
      handlerVars, stopObs>>

(* one search result: all_search_results grows, and snippet_leads too when  *)
(* the snippet holds an e-mail or a phone                                   *)
WmResult ==
    /\ pc = "wm_search"
    /\ Len(allResults) <= MaxResults
    /\ \E u \in WebUrls, hasContact \in BOOLEAN :
          /\ allResults' = Append(allResults, u)
          /\ snippetLeads' = IF hasContact
                             THEN Append(snippetLeads, SnippetLead(u))
                             ELSE snippetLeads
    /\ UNCHANGED <<webFrame, driver, results, tasks, found, leads, pc,
                   doneCount>>

(* the search phase ends: close the browser, unique_urls, submit *)
WmDedup ==
    /\ pc = "wm_search"
    /\ driver' = "none"
    /\ results' = UniqueUrls(allResults)
    /\ tasks' = [i \in 1 .. Len(results') |-> "queued"]
    /\ pc' = "wm_collect"
    /\ UNCHANGED <<webFrame, allResults, snippetLeads, found, leads,
                   doneCount>>

(* one round of "for future in as_completed(futures)": some task has ended  *)
(* with a lead or with None                                                 *)
WmCollect ==
    /\ pc = "wm_collect"
    /\ \E i \in DOMAIN tasks :
          /\ tasks[i] = "queued"
          /\ tasks' = [tasks EXCEPT ![i] = "collected"]
          /\ \E lead \in BOOLEAN :
                found' = IF lead THEN Append(found, DeepLead(results[i]))
                         ELSE found
    /\ doneCount' = doneCount + 1
    /\ UNCHANGED <<webFrame, driver, allResults, snippetLeads, results,
                   leads, pc>>

(* Phase 3 merge, return; the runner cleans and stores *)
WmFinish ==
    /\ pc = "wm_collect"
    /\ \A i \in DOMAIN tasks : tasks[i] = "collected"
    /\ leads' = CleanWebLeads(MergeWebLeads(found, snippetLeads))
    /\ pc' = "wm_done"
    /\ UNCHANGED <<webFrame, driver, allResults, snippetLeads, results,
                   tasks, found, doneCount>>

WebMergeNext == WmResult \/ WmDedup \/ WmCollect \/ WmFinish

SpecWebMerge == WebMergeInit /\ [][WebMergeNext]_vars

-----------------------------------------------------------------------------
RunnerNext ==
    \/ RStart \/ RClean \/ RCheckStopped \/ RPartial \/ RComplete
    \/ RExcept \/ RFinally

StopNext == \E h \in Handlers : HBegin(h) \/ HWrite(h) \/ HStatus(h)

Next == RunnerNext \/ StopNext \/ IgNext \/ LiNext \/ WcNext \/ GmNext
           \/ PoolNext

Spec == Init /\ [][Next]_vars

-----------------------------------------------------------------------------
(* Properties                                                               *)

HandlersFinished == \A h \in Handlers : hpc[h] \in {"idle", "done", "crashed"}
NoStopRequested == \A h \in Handlers : hpc[h] = "idle"
QueryWaits == {"ig_ddg_wait", "ig_gwait", "ig_bwait", "li_gwait", "li_bwait",
               "wc_qwait", "gm_swait"}
FetchWaits == {"gs_load", "gs_reload"}

(* C1: a runner thread never ends while its job is still "running": when    *)
(* the runner has finished, the status is completed, failed or stopped.     *)
C1_RunnerEndsTerminal == pc = "done" => status \in Terminal

(* C2: once the status has left "running" it never changes again, whatever  *)
(* the interleaving of the runner with the stop requests.                   *)
C2_TerminalOnce == [][status # "running" => status' = status]_vars

(* C3: a stop request that arrived while the job was running and before its *)
(* queries were exhausted ends, when no exception was raised and every      *)
(* thread has finished, in the status "stopped".                            *)
C3_StopYieldsStopped ==
    (pc = "done" /\ HandlersFinished /\ stopObs.early /\ exc = "none"
        /\ error = "none")
        => status = "stopped"

(* C4: when a stopped job has finished, job.leads holds exactly the         *)
(* identities that were in the dedup set when the scraper observed the stop *)
(* flag.                                                                    *)
C4_StoppedLeadsAreAdmitted ==
    (pc = "done" /\ HandlersFinished /\ status = "stopped" /\ stopObs.obs)
        => IdsOfSeq(leads) = stopObs.ids

(* C5: when scrape() raised and no stop was requested, the job ends failed, *)
(* with the message of the exception that scrape() raised as job.error.     *)
C5_FailureRecorded ==
    (pc = "done" /\ NoStopRequested /\ (exc # "none" \/ error # "none"))
        => (status = "failed" /\ error = "scrape_error")

(* C6: in every reachable state job.leads holds no two leads of the same    *)
(* identity.                                                                *)
C6_LeadsUnique == NoDupKeys(tool, leads)

(* C6 witness: the runner has just stored the cleaned form of raw leads     *)
(* that held one identity twice.                                            *)
C6_Witness == pc = "r_chk" /\ ~NoDupKeys(tool, found) /\ leads # <<>>

(* C7: once a stop request has been received, whenever that was, the        *)
(* scraper issues no further query.                                         *)
C7_StopNeverLost ==
    [][~NoStopRequested => ~(pc' \in QueryWaits /\ pc' # pc)]_vars

(* C8: once the stop flag is set, no page fetch and no CAPTCHA retry fetch  *)
(* is started.                                                              *)
C8_NoFetchAfterStop ==
    [][shouldStop => ~(pc' \in FetchWaits /\ pc' # pc)]_vars

(* C9: when the runner has finished, on whatever path, the browser driver   *)
(* of the job has been quit.                                                *)
C9_DriverReleased == pc = "done" => driver = "none"

(* C10: job.progress never decreases.                                       *)
C10_ProgressMonotone == [][progress' >= progress]_vars

(* C11: in every state in which the status is completed, failed or stopped  *)
(* job.progress is 100.                                                     *)
C11_TerminalProgress == status \in Terminal => progress = 100

(* C12: the status becomes "completed" only in a run in which no stop       *)
(* request was made (every handler thread that was started being over).     *)
C12_CompletedWithoutStop ==
    [][(status' = "completed" /\ status # "completed" /\ HandlersFinished)
          => NoStopRequested]_vars

BrowserStart == {"ig_init", "li_init", "wc_init", "gm_init"}

(* C13: a browser start-up failure never aborts the run: the step that      *)
(* starts the browser never ends with an exception leaving scrape().        *)
C13_BackendFailureContained ==
    [][(pc \in BrowserStart) => (pc' # "r_except")]_vars

(* the identities admitted so far by the running scraper's dedup set *)
Admitted == IF tool = "gmaps" THEN AdmittedNames ELSE seen

(* C14: while a scraper is attached to the job, get_partial_leads() exists  *)
(* and returns exactly one lead for every identity admitted so far.         *)
C14_PartialLeadsComplete ==
    jobScraper =>
        (HasPartialLeads(tool) /\ IdsOfSeq(partialLeads) = Admitted)

(* C15: a job that was asked to stop while enrichment tasks were pending in *)
(* the worker pool ends, when all its threads are over, "stopped".          *)
C15_StopDuringEnrichment ==
    (pc = "done" /\ HandlersFinished /\ stopObs.pool) => status = "stopped"

(* no query of the run returned a search result *)
ZeroResults == allResults = <<>> /\ seen = {} /\ found = <<>>

(* C16: a run in which no stop was requested, nothing was raised and every  *)
(* query returned zero results ends completed, with no leads and with a     *)
(* final message that states that 0 leads were found.                       *)
C16_ZeroResultsCompleted ==
    (pc = "done" /\ NoStopRequested /\ exc = "none" /\ error = "none"
        /\ ZeroResults)
        => (status = "completed" /\ leads = <<>> /\ message = "done_found_0")

(* C16 witness: a web crawler run over all its queries that found nothing   *)
C16_Witness ==
    /\ pc = "done" /\ tool = "webcrawler" /\ NoStopRequested /\ ZeroResults
    /\ qi = NumQ /\ status = "completed"

(* C17: raw results whose URLs name the same handle and differ only by a    *)
(* query string or a trailing path give exactly one lead of that handle.    *)
C17_OneLeadPerHandle ==
    pc = "dd_done" =>
        \A i \in DOMAIN allResults :
            Cardinality({k \in DOMAIN leads :
                HandleOf(leads[k]) = HandleOf(allResults[i])}) = 1

(* C18: when a results page showed a CAPTCHA on its first fetch and the     *)
(* first reload shows none, the step that leaves the reload moves on to the *)
(* next page with the results collected so far kept as a prefix of the new  *)
(* ones, and the call ends there only through the ordinary exit of the page *)
(* loop.                                                                    *)
C18_RetryParsesPage ==
    [][(pc = "gs_reload" /\ pc' # pc /\ attempt = 0 /\ attempt' = attempt)
          => /\ page' = page + 1
             /\ Len(results') >= Len(results)
             /\ SubSeq(results', 1, Len(results)) = results
             /\ pc' \in {"gs_page", "gs_return"}]_vars

C18_Witness ==
    /\ pc = "gs_page"
    /\ page = 1
    /\ attempt = 0
    /\ results # <<>>

(* C19: a field of a lead that held a real value before an enrichment step  *)
(* (Instagram profile merge, Google Maps website scan) holds a real value   *)
(* after it.                                                                *)
C19_EnrichmentKeepsValues ==
    (pc = "en_done" /\ tool \in {"instagram", "gmaps"}) =>
        \A f \in DOMAIN found[1] :
            CASE f = "email" -> found[1][f] # {} => leads[1][f] # {}
              [] f \in {"facebook", "instagram"} ->
                   found[1][f] # <<>> => leads[1][f] # <<>>
              [] OTHER -> found[1][f] \notin {"", "N/A"}
                             => leads[1][f] \notin {"", "N/A"}

C19_Witness ==
    /\ pc = "en_done"
    /\ tool = "instagram"
    /\ found[1].bio = "a"
    /\ results[1].bio = ""
    /\ leads[1].bio = "a"
    /\ found[1].email # {}
    /\ SelectSeq(results[1].email, is_valid_email) # <<>>
    /\ leads[1].email = found[1].email
    /\ found[1].display_name = "a"
    /\ results[1].display_name = "b"
    /\ leads[1].display_name = "a"

(* C20: every address of a populated e-mail field of a lead has a domain    *)
(* that is not blacklisted and does not end in a static-asset extension,    *)
(* and every populated social field holds a link of its own platform.       *)
C20_ContactFieldsValid ==
    pc = "en_done" =>
        /\ \A e \in leads[1].email :
              /\ Tail(Lower(e)) \notin EMAIL_BLACKLIST
              /\ Lower(e)[3] \notin
                    {"png", "jpg", "gif", "svg", "webp", "js", "css"}
        /\ tool # "instagram" =>
              \A p \in {"facebook", "instagram"} :
                  leads[1][p] # <<>> => leads[1][p][1] = p

C20_Witness ==
    /\ pc = "en_done"
    /\ tool = "webcrawler"
    /\ results[1].email = <<<<"me", "EXAMPLE", "com">>, <<"info", "shop", "com">>>>
    /\ leads[1].email = {<<"info", "shop", "com">>}
    /\ results[1].hrefs = <<<<"other", "shop">>, <<"facebook", "shop">>>>
    /\ leads[1].facebook = <<"facebook", "shop">>

(* C21: in a lead of job.leads every field holds a real value or the        *)
(* marker "N/A"; none is empty.                                             *)
C21_NoEmptyField ==
    pc = "en_cleaned" =>
        \A f \in DOMAIN leads[1] :
            CASE f = "email" -> leads[1][f] # {}
              [] f \in {"facebook", "instagram"} -> leads[1][f] # <<>>
              [] OTHER -> leads[1][f] # ""

C21_Witness ==
    /\ pc = "en_cleaned"
    /\ tool = "gmaps"
    /\ found[1].phone = ""
    /\ leads[1].phone = "N/A"
    /\ leads[1].website = "a"
    /\ leads[1].email = {<<"N/A">>}
    /\ leads[1].facebook = <<"facebook", "shop">>
    /\ leads[1].instagram = <<"N/A">>

(* C22: a progress callback with a negative percentage replaces only        *)
(* job.message; a callback with a percentage >= 0 sets job.progress to that *)
(* percentage.  Inside scrape() the callbacks with -1 are those of the      *)
(* messages "error" and "stopped"; the final callback carries 100 and the   *)
(* first one of LinkedInScraper.scrape carries 2.                           *)
C22_ProgressCallback ==
    [][(pc' # pc /\ pc \notin {"r_start", "r_clean", "r_chk", "r_partial",
                               "r_complete", "r_except", "r_finally", "done"})
          => /\ message' \in {"error", "stopped"}
                   => (progress' = progress /\ UNCHANGED <<status, leads, error>>)
             /\ message' \in {"done", "no_results"} => progress' = 100
             /\ (pc = "scrape" /\ tool = "linkedin")
                   => (message' = "progress" /\ progress' = 2)]_vars

C22_Witness ==
    /\ pc = "r_except"
    /\ message = "error"
    /\ progress > 2

(* C23: status, leads, progress, message and error of a job are written     *)
(* only by the runner thread of that job; a step of a request handler       *)
(* leaves them unchanged.                                                   *)
C23_OnlyRunnerWrites ==
    [][(hpc' # hpc) => UNCHANGED <<status, leads, progress, message, error>>]_vars

(* C24: after a CAPTCHA the same page is fetched again up to 3 times, and   *)
(* the query is given up only after the third reload still shows a CAPTCHA. *)
C24_ThreeReloads ==
    [][(pc = "gs_reload" /\ pc' = "gs_return" /\ attempt' # attempt)
          => attempt' = 3]_vars

(* C25: when the CAPTCHA reloads of a query are exhausted the search        *)
(* function returns the results of the earlier pages of that query, the     *)
(* scrape loop registers them and goes on to the next query, and no error   *)
(* is raised.                                                               *)
C25_OnlyQueryAbandoned ==
    [][/\ (pc = "gs_reload" /\ attempt' # attempt
                            /\ attempt' = CaptchaRetries(tool))
             => (pc' = "gs_return" /\ results' = results /\ exc' = "none")
       /\ (pc = "gs_return" /\ pc' # pc /\ attempt = CaptchaRetries(tool))
             => /\ allResults' = allResults \o results
                /\ exc' = "none"
                /\ status' = "running"
                /\ (~shouldStop /\ qi + 1 < NumQ)
                      => (pc' = "gs_page" /\ qi' = qi + 1)]_vars

C25_Witness ==
    /\ pc = "gs_load"
    /\ tool = "instagram"
    /\ qi = 1
    /\ attempt = CaptchaRetries(tool)
    /\ allResults # <<>>

(* C26: in one back-off loop of InstagramScraper._google_search the wait    *)
(* before the next attempt is strictly greater than the wait before this    *)
(* one, whatever the two jitters (each between 5 and 15) are.               *)
C26_WaitGrows ==
    [][(tool = "instagram" /\ pc = "gs_backoff" /\ pc' = "gs_reload"
           /\ attempt + 1 < CaptchaRetries(tool))
          => \A j1 \in 5 .. 15, j2 \in 5 .. 15 :
                CaptchaWait(attempt + 1, j2) > CaptchaWait(attempt, j1)]_vars

C26_Witness ==
    /\ tool = "instagram"
    /\ pc = "gs_reload"
    /\ attempt = 2

(* C27: the parsing strategies run in the order 1, 2, 3; strategy n + 1 is  *)
(* called only if strategy n returned no record, and the records of the     *)
(* page are those of the last strategy called, the first that returned any. *)
C27_FallbackChain ==
    /\ \A n \in 1 .. 2 : idx > n => allResults[n] = <<>>
    /\ idx > 0 => results = allResults[idx]
    /\ (idx > 0 /\ allResults[1] # <<>>) => (idx = 1 /\ results = allResults[1])

C27_Witness ==
    /\ idx = 2
    /\ allResults[1] = <<>>
    /\ allResults[2] # <<>>
    /\ allResults[3] # <<>>
    /\ results = allResults[2]
    /\ ~ENABLED PsInvoke

(* C28: the profile merge keeps the value of email, display_name and bio    *)
(* when _parse_lead had populated it from the search result.                *)
C28_ExtractorFieldsKept ==
    (pc = "en_done" /\ tool = "instagram") =>
        /\ found[1].email # {} => leads[1].email = found[1].email
        /\ \A f \in {"display_name", "bio"} :
              found[1][f] \notin {"", "N/A"} => leads[1][f] = found[1][f]

(* C29: while one site is scanned, no further path is fetched once an       *)
(* e-mail and a link for every tracked platform have been found.            *)
C29_EarlyExit ==
    [][(pc = "en_scan" /\ found[2].email # {} /\ found[2].facebook # <<>>
           /\ found[2].instagram # <<>>)
          => page' = page]_vars

(* C30: a website scan that fails (timeout, non-200 response, exception)    *)
(* changes no other lead and no other task, and neither its end nor its     *)
(* collection by the as_completed loop raises out of scrape() or stops the  *)
(* tasks that remain.                                                       *)
C30_FailureStaysLocal ==
    [][\A i \in DOMAIN tasks :
          /\ (DOMAIN tasks' = DOMAIN tasks /\ tasks[i] = "running"
                 /\ tasks'[i] = "none")
                => /\ found' = found /\ leads' = leads
                   /\ exc' = exc /\ pc' = pc
                   /\ \A j \in DOMAIN tasks \ {i} : tasks'[j] = tasks[j]
          /\ (DOMAIN tasks' = DOMAIN tasks /\ tasks[i] = "none"
                 /\ tasks'[i] = "collected" /\ ~shouldStop)
                => /\ found' = found
                   /\ exc' = "none"
                   /\ pc' \in {"wc_collect", "wc_join", "gm_collect", "gm_join"}
                   /\ \A j \in DOMAIN tasks \ {i} : tasks'[j] = tasks[j]]_vars

C30_Witness ==
    /\ pc = "gm_collect"
    /\ tasks = <<"none", "running">>
    /\ exc = "none"
    /\ ~shouldStop

(* C31: in the parallel enrichment phase a pool worker never calls the      *)
(* progress callback; job.progress and job.message are written by the       *)
(* callback only in a round of the loop that collects the completed tasks.  *)
C31_CallbacksFromCollector ==
    [][/\ (pc' = pc /\ doneCount' = doneCount /\ tasks' # tasks)
             => UNCHANGED <<progress, message>>
       /\ (pc \in {"wc_collect", "wc_join", "gm_collect", "gm_join"}
              /\ pc' \in {"wc_collect", "wc_join", "gm_collect", "gm_join"}
              /\ hpc' = hpc
              /\ (progress' # progress \/ message' # message))
             => doneCount' = doneCount + 1]_vars

C31_Witness ==
    /\ pc = "gm_join"
    /\ Len(tasks) = 2
    /\ doneCount = 2
    /\ progress = 98
    /\ ~shouldStop

(* C32: _expand_keywords returns at most 15 words, pairwise distinct        *)
(* ignoring case, the original keyword first; the profile-mode list has at  *)
(* most 24 queries and the business-mode list at most 40; the Google phase  *)
(* issues at most 15 of them.                                               *)
C32_PlanIsCapped ==
    pc \in {"pl_ddg", "pl_google", "pl_done"} =>
        /\ Len(results) <= 15
        /\ results[1] = found[1]
        /\ \A i, j \in DOMAIN results :
              i # j => LowerWord(results[i]) # LowerWord(results[j])
        /\ exc = "profiles" => Len(snippetLeads) <= 24
        /\ exc = "businesses" => Len(snippetLeads) <= 40
        /\ qi <= 15
        /\ qi <= Len(partialLeads)
        /\ partialLeads = SubSeq(snippetLeads, 1, Len(partialLeads))

C32_Witness ==
    /\ pc = "pl_done"
    /\ Len(allResults) > 15
    /\ Len(results) = 15
    /\ exc = "businesses"
    /\ Len(snippetLeads) = 40
    /\ qi = 15

(* C33: once the status of a job is terminal its leads, progress, message   *)
(* and error never change again.                                            *)
C33_TerminalFrozen ==
    [][(status \in Terminal)
          => UNCHANGED <<leads, progress, message, error>>]_vars

(* C34: the result-scrolling loop executes at most max_scroll_attempts (50) *)
(* scroll cycles for one query, whatever the page does.                     *)
C34_AtMostFiftyCycles == idx <= MaxScrollAttempts

(* C35: when _cleanup_jobs returns, the store holds at most max_keep        *)
(* finished jobs, every job it removed was finished and started no later    *)
(* than every finished job it kept, and no running job was removed.         *)
C35_CleanupKeepsNewest ==
    pc = "cu_done" =>
        /\ Cardinality(Finished(allResults)) <= numPages
        /\ \A j \in JobIds : allResults[j].removed =>
              /\ allResults[j].status \in Terminal
              /\ \A k \in Finished(allResults) :
                    allResults[j].started_at <= allResults[k].started_at

C37_CleanIsIdempotent == pc = "cl_twice" => results = leads

(* C38: in a web-crawler run at most one deep-scrape task is submitted per  *)
(* website domain, for the first URL seen of that domain; and when a deep   *)
(* lead and a snippet lead exist for the same domain, the cleaned list      *)
(* keeps the deep lead and holds no snippet lead of that domain.            *)
C38_OneTaskPerDomain ==
    /\ pc \in {"wm_collect", "wm_done"} =>
          /\ Len(tasks) = Len(results)
          /\ \A i, j \in DOMAIN results :
                i # j => IdOf(results[i]) # IdOf(results[j])
          /\ \A i \in DOMAIN results : \E k \in DOMAIN allResults :
                /\ allResults[k] = results[i]
                /\ \A m \in 1 .. (k - 1) :
                      IdOf(allResults[m]) # IdOf(results[i])
    /\ pc = "wm_done" =>
          \A i \in DOMAIN found, j \in DOMAIN snippetLeads :
             IdOf(found[i].website) = IdOf(snippetLeads[j].website) =>
                /\ \E n \in DOMAIN leads : leads[n] = found[i]
                /\ \A n \in DOMAIN leads :
                      IdOf(leads[n].website) = IdOf(found[i].website)
                         => leads[n].kind = "deep"

C38_Witness ==
    /\ pc = "wm_done"
    /\ allResults = <<2, 3, 1>>
    /\ snippetLeads = <<SnippetLead(2), SnippetLead(1)>>
    /\ found = <<DeepLead(3), DeepLead(2)>>
    /\ leads = <<DeepLead(3), DeepLead(2)>>

TypeOK ==
    /\ tool \in Tools
    /\ status \in Statuses
    /\ progress \in 0 .. 100
    /\ leads \in Seq(Urls)
    /\ partialLeads \in Seq(Urls)
    /\ driver \in {"none", "open"}
    /\ Len(allResults) + Len(results) <= MaxResults
    /\ tasks \in Seq(TaskStates)
    /\ doneCount \in 0 .. MaxResults

=============================================================================
